---- MODULE Spec2Model ----
(***************************************************************************)
(* A model of the FPL transfer-suggestion backend:                         *)
(*   - the Remote Data Gateway (services/fpl_client.py),                   *)
(*   - the scoring functions (agents/tools/fpl_tools.py),                  *)
(*   - the three-node pipeline (agents/graph.py and agents/nodes/*.py).    *)
(*                                                                         *)
(* Conventions.                                                            *)
(*   Optional values: None is the empty tuple, a present value v is <<v>>. *)
(*   Decimal numbers are kept as exact integers in a stated unit: form and *)
(*   points_per_game in tenths, money in tenths of a million (as the       *)
(*   provider sends it), results that the code rounds to two places in     *)
(*   hundredths.                                                           *)
(*   An exception is modelled by the value the enclosing try/except turns  *)
(*   it into; a call that can raise to its caller returns a record with a  *)
(*   field exc ("" when nothing was raised).                               *)
(***************************************************************************)
EXTENDS Integers, Sequences, FiniteSets, TLC

VARIABLES
    pc,          \* position of run_suggestion_workflow / the graph
    state,       \* the AgentState accumulator threaded through the graph
    result,      \* what run_suggestion_workflow returned (None before)
    net,         \* the FPLClient's traffic in this run: requests issued, raised?
    invoked,     \* the graph nodes invoked so far, in order
    llm_calls,   \* number of llm.ainvoke calls issued in this run
    parsed,      \* the suggestion list json.loads produced in the Suggest node
    call,        \* the last direct call of a gateway operation or scoring tool
    prompt,      \* the replacement candidates of the prompt sent to the LLM
    mlflow       \* the process's _mlflow_available flag, with the probes made

vars == <<pc, state, result, net, invoked, llm_calls, parsed, call, prompt, mlflow>>

----------------------------------------------------------------------------
(* Bounds of the model *)

MaxFixtures == 2      \* longest fixture list handed to a scoring tool
MaxPlayers == 4       \* player ids of the provider's pool are 1..MaxPlayers
MaxPicks == 2         \* longest picks list the provider returns
MaxReply == 4
MaxSuggestions == 2   \* longest suggestion list in an LLM reply
NumTeams == 3         \* team ids are 1..NumTeams
MaxRuns == 2          \* pipeline runs of one process

(* Constants of the program and of the provider contract *)

SquadSize == 15           \* TeamPick.position: "Position in squad (1-15, ...)"
LastGameweek == 38        \* range(current_gameweek, min(current_gameweek + 6, 39))
FixtureWindow == 6
MaxDifficulty == 5        \* provider's difficulty scale 1..5
DefaultNextN == 5         \* next_n_games default, and what the analyzer passes
NeutralDifficulty == 300  \* avg_difficulty 3.0, in hundredths
EasyBelow == 250          \* avg_diff < 2.5, in hundredths
ModerateBelow == 350      \* avg_diff < 3.5, in hundredths
ValueExcellent == 25
ValueGood == 20
ValueAverage == 15
ThresholdForm == 30       \* threshold_form 3.0, in tenths
ChanceDoubt == 75
FormExcellent == 60      \* form >= 6.0, in tenths
FormGood == 40
FormAverage == 20
HardFixturesMin == 3
PoorValueMin == 4
MaxUnderperformers == 5
CandidateFetch == 15
MaxCandidates == 5

----------------------------------------------------------------------------
(* Python values *)

None == <<>>
Some(v) == <<v>>
IsNone(x) == x = <<>>
Get(x) == x[1]

Min(a, b) == IF a < b THEN a ELSE b

\* range(a, b) as a sequence
Range(a, b) == [i \in 1..(IF b > a THEN b - a ELSE 0) |-> a + i - 1]

RECURSIVE SumSeq(_)
SumSeq(s) == IF s = <<>> THEN 0 ELSE s[1] + SumSeq(Tail(s))

\* p/q (q > 0) rounded to the nearest integer, ties to even. The code rounds
\* doubles with round(x, 2); on the values this model draws the two agree
RoundHalfEven(p, q) ==
    LET f == p \div q
        r == p - q * f
    IN  IF 2 * r < q THEN f
        ELSE IF 2 * r > q THEN f + 1
        ELSE IF f % 2 = 0 THEN f ELSE f + 1

\* the elements of a sequence, as a set
Elems(s) == {s[i] : i \in 1..Len(s)}

----------------------------------------------------------------------------
(* Remote Data Gateway: services/fpl_client.py                             *)
(* A client context c is [log, fail_at, raised]: the requests issued so    *)
(* far, the ordinal of the request the network fails (0: none), and        *)
(* whether an exception is propagating. An operation called while an       *)
(* exception propagates is never reached, so it leaves c alone.            *)

NewClient(fail_at) == [log |-> <<>>, fail_at |-> fail_at, raised |-> FALSE]

Request(url, arg) == [url |-> url, arg |-> arg]

\* one client.get(...) followed by response.raise_for_status()
HttpGet(c, url, arg) ==
    IF c.raised THEN c
    ELSE [c EXCEPT !.log = Append(@, Request(url, arg)),
                   !.raised = (Len(c.log) + 1 = c.fail_at)]

get_bootstrap_static(c) == HttpGet(c, "bootstrap-static/", 0)

get_all_players(c) == get_bootstrap_static(c)

get_teams(c) == get_bootstrap_static(c)

get_current_gameweek(c) == get_bootstrap_static(c)

get_team_summary(c, manager_id) == HttpGet(c, "entry/", manager_id)

get_team_picks(c, manager_id, gameweek) == HttpGet(c, "entry/event/picks/", gameweek)

get_manager_leagues(c, manager_id) == HttpGet(c, "entry/", manager_id)

\* the probe: one request whose failure is caught; valid iff the provider
\* answered 200
validate_cookie(c) ==
    LET probe == HttpGet(c, "me/", 0)
    IN  [c |-> [probe EXCEPT !.raised = FALSE], valid |-> ~probe.raised]

get_league_standings(c, league_id) == HttpGet(c, "leagues-classic/standings/", league_id)

get_fixtures_OneRequest(c, gameweek) == HttpGet(c, "fixtures/", gameweek)

\* the fixtures request, then get_teams() for the team names
get_fixtures(c, gameweek) == get_teams(HttpGet(c, "fixtures/", gameweek))

----------------------------------------------------------------------------
(* Scoring functions: agents/tools/fpl_tools.py *)

TeamNames == <<"ARS", "CHE", "LIV", "MCI", "TOT", "NEW">>

\* what one fixture adds to upcoming_fixtures: nothing, or one entry
UpcomingEntry_IgnoresFinished(fixture, player_team_id) ==
    IF fixture.team_h = player_team_id
    THEN <<[opponent |-> fixture.team_a_name, home |-> TRUE,
            difficulty |-> fixture.team_h_difficulty]>>
    ELSE IF fixture.team_a = player_team_id
    THEN <<[opponent |-> fixture.team_h_name, home |-> FALSE,
            difficulty |-> fixture.team_a_difficulty]>>
    ELSE <<>>

UpcomingEntry(fixture, player_team_id) ==
    IF ~fixture.finished
    THEN IF fixture.team_h = player_team_id
         THEN <<[opponent |-> fixture.team_a_name, home |-> TRUE,
                 difficulty |-> fixture.team_h_difficulty]>>
         ELSE IF fixture.team_a = player_team_id
         THEN <<[opponent |-> fixture.team_h_name, home |-> FALSE,
                 difficulty |-> fixture.team_a_difficulty]>>
         ELSE <<>>
    ELSE <<>>

\* the scan "for fixture in fixtures", broken off once next_n_games are found
RECURSIVE CollectUpcoming(_, _, _, _)
CollectUpcoming(fixtures, player_team_id, next_n_games, upcoming_fixtures) ==
    IF fixtures = <<>> \/ Len(upcoming_fixtures) >= next_n_games
    THEN upcoming_fixtures
    ELSE CollectUpcoming(Tail(fixtures), player_team_id, next_n_games,
             upcoming_fixtures \o UpcomingEntry(Head(fixtures), player_team_id))

\* the mean is total/count; avg_diff < 2.5 is 100 * total < 250 * count
DifficultyRating_EasyInclusive(total, count) ==
    IF 100 * total <= EasyBelow * count THEN "Easy"
    ELSE IF 100 * total < ModerateBelow * count THEN "Moderate"
    ELSE "Hard"

DifficultyRating(total, count) ==
    IF 100 * total < EasyBelow * count THEN "Easy"
    ELSE IF 100 * total < ModerateBelow * count THEN "Moderate"
    ELSE "Hard"

Difficulties(upcoming_fixtures) ==
    [i \in 1..Len(upcoming_fixtures) |-> upcoming_fixtures[i].difficulty]

\* avg_difficulty is in hundredths
calculate_fixture_difficulty(player_team_id, fixtures, next_n_games) ==
    LET upcoming_fixtures == CollectUpcoming(fixtures, player_team_id, next_n_games, <<>>)
        total == SumSeq(Difficulties(upcoming_fixtures))
        count == Len(upcoming_fixtures)
    IN  IF upcoming_fixtures = <<>>
        THEN [avg_difficulty |-> NeutralDifficulty, fixtures |-> <<>>, rating |-> "Unknown"]
        ELSE [avg_difficulty |-> RoundHalfEven(100 * total, count),
              fixtures |-> upcoming_fixtures,
              rating |-> DifficultyRating(total, count)]

\* value = total_points / (now_cost / 10), kept as the fraction num/den;
\* exc is the exception the division raises, "" when none
ValueOf_NoZeroGuard(now_cost, total_points) ==
    IF now_cost = 0
    THEN [exc |-> "ZeroDivisionError", num |-> 0, den |-> 1]
    ELSE [exc |-> "", num |-> 10 * total_points, den |-> now_cost]

ValueOf(now_cost, total_points) ==
    IF now_cost = 0
    THEN [exc |-> "", num |-> 0, den |-> 1]
    ELSE [exc |-> "", num |-> 10 * total_points, den |-> now_cost]

ValueRating(num, den) ==
    IF num >= ValueExcellent * den THEN "Excellent"
    ELSE IF num >= ValueGood * den THEN "Good"
    ELSE IF num >= ValueAverage * den THEN "Average"
    ELSE "Poor"

\* cost is in tenths of a million, points_per_million in hundredths
analyze_value(player) ==
    LET value == ValueOf(player.now_cost, player.total_points)
    IN  IF value.exc # ""
        THEN [exc |-> value.exc, cost |-> 0, total_points |-> 0,
              points_per_million |-> 0, value_rating |-> ""]
        ELSE [exc |-> "", cost |-> player.now_cost,
              total_points |-> player.total_points,
              points_per_million |-> RoundHalfEven(100 * value.num, value.den),
              value_rating |-> ValueRating(value.num, value.den)]

\* float(x or 0.0) for an optional number
FloatOr0(x) == IF IsNone(x) THEN 0 ELSE Get(x)

\* [float(p.get(field) or 0.0) for p in players if p.get("position") == position
\*  and p.get(field) is not None]
RECURSIVE ValidValues_NullAsZero(_, _, _)
ValidValues_NullAsZero(players, position, field) ==
    IF players = <<>> THEN <<>>
    ELSE LET p == Head(players)
             rest == ValidValues_NullAsZero(Tail(players), position, field)
         IN  IF p.position = position
             THEN <<FloatOr0(p[field])>> \o rest
             ELSE rest

RECURSIVE ValidValues(_, _, _)
ValidValues(players, position, field) ==
    IF players = <<>> THEN <<>>
    ELSE LET p == Head(players)
             rest == ValidValues(Tail(players), position, field)
         IN  IF p.position = position /\ ~IsNone(p[field])
             THEN <<Get(p[field])>> \o rest
             ELSE rest

\* (x - mean(values)) rounded to two places, in hundredths; x and the values
\* are in tenths; the mean of no values is taken as 0.0
VersusAverage(x, values) ==
    IF values = <<>> THEN 10 * x
    ELSE RoundHalfEven(10 * (x * Len(values) - SumSeq(values)), Len(values))

FormStatus(form) ==
    IF form >= FormExcellent THEN "Excellent"
    ELSE IF form >= FormGood THEN "Good"
    ELSE IF form >= FormAverage THEN "Average"
    ELSE "Poor"

get_player_form_score(player, all_players) ==
    LET form == FloatOr0(player.form)
        points_per_game == FloatOr0(player.points_per_game)
    IN  [form |-> form,
         form_status |-> FormStatus(form),
         form_vs_position_avg |->
             VersusAverage(form, ValidValues(all_players, player.position, "form")),
         points_per_game |-> points_per_game,
         ppg_vs_position_avg |->
             VersusAverage(points_per_game,
                           ValidValues(all_players, player.position, "points_per_game"))]

\* a reason string: its fixed text and, for "Poor form (x)", the form printed
Reason(text, arg) == [text |-> text, arg |-> arg]

StatusReason_NoSuspended(status) ==
    IF status = "i" THEN <<Reason("Injured", None)>>
    ELSE IF status = "u" THEN <<Reason("Unavailable", None)>>
    ELSE <<>>

StatusReason(status) ==
    IF status = "i" THEN <<Reason("Injured", None)>>
    ELSE IF status = "s" THEN <<Reason("Suspended", None)>>
    ELSE IF status = "u" THEN <<Reason("Unavailable", None)>>
    ELSE <<>>

Reasons_FormInclusive(player, threshold_form) ==
    LET form == FloatOr0(player.form)
        chance_playing == player.chance_of_playing_next_round
    IN  (IF form <= threshold_form THEN <<Reason("Poor form", Some(form))>> ELSE <<>>)
        \o StatusReason(player.status)
        \o (IF ~IsNone(chance_playing) /\ Get(chance_playing) < ChanceDoubt
            THEN <<Reason("Injury doubt", None)>> ELSE <<>>)

Reasons(player, threshold_form) ==
    LET form == FloatOr0(player.form)
        chance_playing == player.chance_of_playing_next_round
    IN  (IF form < threshold_form THEN <<Reason("Poor form", Some(form))>> ELSE <<>>)
        \o StatusReason(player.status)
        \o (IF ~IsNone(chance_playing) /\ Get(chance_playing) < ChanceDoubt
            THEN <<Reason("Injury doubt", None)>> ELSE <<>>)

RECURSIVE find_underperformers(_, _)
find_underperformers(team_players, threshold_form) ==
    IF team_players = <<>> THEN <<>>
    ELSE LET player == Head(team_players)
             reasons == Reasons(player, threshold_form)
         IN  (IF reasons # <<>>
              THEN <<[player |-> player, reasons |-> reasons]>> ELSE <<>>)
             \o find_underperformers(Tail(team_players), threshold_form)

Eligible_AnyStatus(p, position, max_cost) ==
    /\ p.position = position
    /\ ~(p.now_cost > max_cost)

\* the three tests of the filter loop; now_cost and max_cost are in tenths of
\* a million, so that (now_cost / 10) > max_cost is now_cost > max_cost
Eligible(p, position, max_cost) ==
    /\ p.position = position
    /\ ~(p.now_cost > max_cost)
    /\ p.status = "a"

RECURSIVE Candidates(_, _, _)
Candidates(all_players, position, max_cost) ==
    IF all_players = <<>> THEN <<>>
    ELSE (IF Eligible(Head(all_players), position, max_cost)
          THEN <<Head(all_players)>> ELSE <<>>)
         \o Candidates(Tail(all_players), position, max_cost)

\* float(form) * float(ppg), in hundredths
get_score(player) == FloatOr0(player.form) * FloatOr0(player.points_per_game)

\* the place of p in a list sorted by score, highest first: behind every
\* entry whose score is not lower, so that equal scores keep their order
RECURSIVE InsertByScore(_, _)
InsertByScore(p, sorted) ==
    IF sorted = <<>> THEN <<p>>
    ELSE IF get_score(Head(sorted)) >= get_score(p)
    THEN <<Head(sorted)>> \o InsertByScore(p, Tail(sorted))
    ELSE <<p>> \o sorted

\* candidates.sort(key=get_score, reverse=True): a stable sort
RECURSIVE SortByScore(_)
SortByScore(candidates) ==
    IF candidates = <<>> THEN <<>>
    ELSE InsertByScore(candidates[Len(candidates)],
                       SortByScore(SubSeq(candidates, 1, Len(candidates) - 1)))

\* seq[:limit] for a limit >= 0
Take(seq, limit) == SubSeq(seq, 1, Min(limit, Len(seq)))

find_top_performers_by_position(all_players, position, max_cost, limit) ==
    Take(SortByScore(Candidates(all_players, position, max_cost)), limit)

----------------------------------------------------------------------------
(* What the provider serves: the inputs of one pipeline run *)

PlayerNames == <<"Saka", "Palmer", "Salah", "Haaland", "Son", "Isak", "Rice", "Foden">>
PlayerPositions == <<"MID", "MID", "FWD", "MID", "DEF", "FWD", "DEF", "GKP">>
PlayerCosts == <<50, 60, 45, 55, 40, 0, 48, 52>>
PlayerPoints == <<40, 150, 70, 90, 100, 12, 72, 30>>
PlayerForms == <<29, 65, 50, 40, 10, 30, 61, 0>>
PlayerPpgs == <<30, 60, 42, 45, 20, 35, 50, 5>>
PlayerStatuses == <<"a", "a", "i", "a", "d", "a", "s", "u">>
PlayerChances == <<None, None, Some(50), Some(100), Some(75), None, Some(0), None>>

\* Player(**player_data).model_dump() for the provider's element i
PlayerRecord(i) ==
    [id |-> i, web_name |-> PlayerNames[i], team |-> 1 + (i % NumTeams),
     position |-> PlayerPositions[i], now_cost |-> PlayerCosts[i],
     total_points |-> PlayerPoints[i], points_per_game |-> Some(PlayerPpgs[i]),
     form |-> Some(PlayerForms[i]), status |-> PlayerStatuses[i],
     chance_of_playing_next_round |-> PlayerChances[i]]

\* the pool holds the elements 1..k
Pool(k) == [i \in 1..k |-> PlayerRecord(i)]

\* the picks name distinct elements; the code only asks which ids are picked,
\* so the lists are taken in ascending order
PickLists ==
    {s \in UNION {[1..n -> 1..MaxPlayers] : n \in 0..MaxPicks} :
        \A i, j \in 1..Len(s) : i < j => s[i] < s[j]}

TeamPick(element, slot) ==
    [element |-> element, position |-> slot, multiplier |-> IF slot = 1 THEN 2 ELSE 1,
     is_captain |-> slot = 1, is_vice_captain |-> slot = 2]

Picks(ids) == [i \in 1..Len(ids) |-> TeamPick(ids[i], i)]

Teams == [t \in 1..NumTeams |-> [id |-> t, name |-> TeamNames[t]]]

\* the fixtures the provider serves for one gameweek: one match; the matches
\* of even gameweeks are already played
FixturesOf(gw) ==
    <<[id |-> gw, event |-> gw,
       team_h |-> 1 + (gw % NumTeams), team_a |-> 1 + ((gw + 1) % NumTeams),
       team_h_name |-> TeamNames[1 + (gw % NumTeams)],
       team_a_name |-> TeamNames[1 + ((gw + 1) % NumTeams)],
       team_h_difficulty |-> 1 + (gw % MaxDifficulty),
       team_a_difficulty |-> MaxDifficulty - (gw % MaxDifficulty),
       finished |-> (gw % 2 = 0)]>>

\* a pool and the picks of a manager
Served(all_players, team_picks) == [all_players |-> all_players, team_picks |-> team_picks]

SmallSquads == {Served(Pool(k), Picks(ids)) : k \in 0..MaxPlayers, ids \in PickLists}

\* a full squad of known players: the first n_poor are out of form (2.9, from
\* the sixth on 1.0, the others 3.0), the last n_hurt are injured, the first n_hard play for team
\* 1, and the first n_cheap give 8 or 16 points per million (the others 20)
SquadNames ==
    <<"P01", "P02", "P03", "P04", "P05", "P06", "P07", "P08", "P09", "P10",
      "P11", "P12", "P13", "P14", "P15">>

SquadPlayer(i, n_poor, n_hurt, n_hard, n_cheap) ==
    [id |-> i, web_name |-> SquadNames[i], team |-> IF i <= n_hard THEN 1 ELSE 2,
     position |-> "MID", now_cost |-> 50,
     total_points |-> IF i > n_cheap THEN 100 ELSE IF i % 2 = 1 THEN 40 ELSE 80,
     points_per_game |-> Some(40),
     form |-> Some(IF i > n_poor THEN 30 ELSE IF i <= MaxUnderperformers THEN 29 ELSE 10),
     status |-> IF i > SquadSize - n_hurt THEN "i" ELSE "a",
     chance_of_playing_next_round |-> None]

\* the players of the pool that are in no squad: position, cost, form,
\* points per game, status
MarketRows ==
    <<<<"M01", "MID", 40, 80, 60, "a">>, <<"M02", "MID", 50, 70, 50, "a">>,
      <<"M03", "MID", 55, 60, 50, "a">>, <<"M04", "MID", 56, 90, 90, "a">>,
      <<"M05", "MID", 45, 95, 95, "i">>, <<"M06", "DEF", 45, 90, 90, "a">>,
      <<"M07", "MID", 45, 50, 50, "a">>, <<"M08", "MID", 48, 55, 40, "a">>,
      <<"M09", "MID", 50, 45, 45, "a">>, <<"M10", "MID", 30, 10, 10, "a">>>>

MarketPlayer(k) ==
    [id |-> SquadSize + k, web_name |-> MarketRows[k][1], team |-> 3,
     position |-> MarketRows[k][2], now_cost |-> MarketRows[k][3],
     total_points |-> 100, points_per_game |-> Some(MarketRows[k][5]),
     form |-> Some(MarketRows[k][4]), status |-> MarketRows[k][6],
     chance_of_playing_next_round |-> None]

\* the first n of the market
Market(n) == [k \in 1..n |-> MarketPlayer(k)]

FullSquads ==
    {Served([i \in 1..SquadSize |-> SquadPlayer(i, n_poor, n_hurt, n_hard, n_cheap)]
                \o Market(n_market),
            Picks([i \in 1..SquadSize |-> i])) :
        n_poor \in {0, 5, 6, 7, SquadSize}, n_hurt \in {0, 1, 9, 10},
        n_hard \in {0, 2, 3}, n_cheap \in {0, 3, 4, 5},
        n_market \in {0, Len(MarketRows)}}

ManagerIds == {7}
BankValues == {0, 5}
GameweekSamples == {34, 38}

----------------------------------------------------------------------------
(* The accumulator: agents/state.py, agents/graph.py *)

\* an error message: the f-string's fixed prefix and str(e)
Err(prefix, detail) == [prefix |-> prefix, detail |-> detail]

InitialState(manager_id) ==
    [manager_id |-> manager_id, gameweek |-> 0, fpl_cookie |-> "cookie",
     feedback |-> None, current_suggestions |-> None,
     current_team_picks |-> None, current_team_players |-> None,
     all_players |-> None, fixtures |-> None, teams |-> None,
     team_summary |-> None, form_analysis |-> None, fixture_analysis |-> None,
     value_analysis |-> None, team_weaknesses |-> None,
     transfer_suggestions |-> <<>>, error |-> None, step_completed |-> "init"]

\* how the graph applies a node's returned dict: each returned key overwrites
Merge(s, update) ==
    [k \in DOMAIN s |-> IF k \in DOMAIN update THEN update[k] ELSE s[k]]

----------------------------------------------------------------------------
(* Fetch node: agents/nodes/data_fetcher.py *)

FixtureGameweeks_NoCap(current_gameweek) ==
    Range(current_gameweek, current_gameweek + FixtureWindow)

\* range(current_gameweek, min(current_gameweek + 6, 39))
FixtureGameweeks(current_gameweek) ==
    Range(current_gameweek, Min(current_gameweek + FixtureWindow, LastGameweek + 1))

RECURSIVE FetchFixtures(_, _)
FetchFixtures(c, gws) ==
    IF gws = <<>> THEN c ELSE FetchFixtures(get_fixtures(c, Head(gws)), Tail(gws))

\* the gateway calls of the node, in order
FetchTraffic(fail_at, manager_id, current_gameweek) ==
    LET c1 == get_all_players(NewClient(fail_at))
        c2 == get_teams(c1)
        c3 == get_current_gameweek(c2)
        c4 == get_team_summary(c3, manager_id)
        c5 == get_team_picks(c4, manager_id, current_gameweek)
    IN  FetchFixtures(c5, FixtureGameweeks(current_gameweek))

\* fixtures.extend(gw_fixtures), gameweek after gameweek
RECURSIVE AllFixtures(_)
AllFixtures(gws) ==
    IF gws = <<>> THEN <<>>
    ELSE FixturesOf(Head(gws)) \o AllFixtures(Tail(gws))

\* [p for p in all_players if p.id in player_ids]
RECURSIVE PlayersIn(_, _)
PlayersIn(all_players, player_ids) ==
    IF all_players = <<>> THEN <<>>
    ELSE (IF Head(all_players).id \in player_ids THEN <<Head(all_players)>> ELSE <<>>)
         \o PlayersIn(Tail(all_players), player_ids)

PickElements(team_picks) == {team_picks[i].element : i \in 1..Len(team_picks)}

FetchFailure(detail) ==
    [error |-> Some(Err("Failed to fetch data", detail)),
     step_completed |-> "data_fetch_failed"]

\* the dict the node returns, given the traffic and what the provider served
data_fetcher_update(c, manager_id, all_players, team_picks, current_gameweek, bank) ==
    IF c.raised THEN FetchFailure("HTTPError")
    ELSE [all_players |-> Some(all_players),
          teams |-> Some(Teams),
          current_team_picks |-> Some(team_picks),
          current_team_players |-> Some(PlayersIn(all_players, PickElements(team_picks))),
          fixtures |-> Some(AllFixtures(FixtureGameweeks(current_gameweek))),
          team_summary |-> Some([id |-> manager_id, event |-> current_gameweek,
                                 value |-> 1000, bank |-> bank]),
          gameweek |-> current_gameweek,
          step_completed |-> "data_fetch",
          error |-> None]

----------------------------------------------------------------------------
(* Analyze node: agents/nodes/analyzer.py *)

PlayerAnalysis(player, all_players, fixtures) ==
    [player_id |-> player.id, name |-> player.web_name, position |-> player.position,
     form |-> get_player_form_score(player, all_players),
     fixtures |-> calculate_fixture_difficulty(player.team, fixtures, DefaultNextN),
     value |-> analyze_value(player)]

\* f"{count} players with ..."
Weakness(count, text) == [count |-> count, text |-> text]

HardFixtures(player_analyses) ==
    Cardinality({i \in 1..Len(player_analyses) : player_analyses[i].fixtures.rating = "Hard"})

EasyFixtures(player_analyses) ==
    Cardinality({i \in 1..Len(player_analyses) : player_analyses[i].fixtures.rating = "Easy"})

PoorValue_OnlyPoor(player_analyses) ==
    Cardinality({i \in 1..Len(player_analyses) :
                    player_analyses[i].value.value_rating = "Poor"})

PoorValue(player_analyses) ==
    Cardinality({i \in 1..Len(player_analyses) :
                    player_analyses[i].value.value_rating \in {"Poor", "Average"}})

Weaknesses(underperformers, player_analyses) ==
    (IF Len(underperformers) > 0
     THEN <<Weakness(Len(underperformers), "players with poor form or injuries")>>
     ELSE <<>>)
    \o (IF HardFixtures(player_analyses) >= HardFixturesMin
        THEN <<Weakness(HardFixtures(player_analyses), "players facing difficult fixtures")>>
        ELSE <<>>)
    \o (IF PoorValue(player_analyses) >= PoorValueMin
        THEN <<Weakness(PoorValue(player_analyses), "players with poor value for money")>>
        ELSE <<>>)

AnalyzerFailure_ClearsDerived(detail) ==
    [error |-> Some(Err("Analysis failed", detail)),
     step_completed |-> "analysis_failed",
     team_weaknesses |-> Some(<<>>)]

AnalyzerFailure(detail) ==
    [error |-> Some(Err("Analysis failed", detail)),
     step_completed |-> "analysis_failed"]

Mean_ZeroWhenEmpty(total, count) ==
    IF count = 0 THEN [exc |-> "", num |-> 0, den |-> 1]
    ELSE [exc |-> "", num |-> total, den |-> count]

\* total / count, kept as the fraction num/den; exc is the exception the
\* division raises, "" when none
Mean(total, count) ==
    IF count = 0 THEN [exc |-> "division by zero", num |-> 0, den |-> 1]
    ELSE [exc |-> "", num |-> total, den |-> count]

\* the dict the node returns; avg_points_per_million is the exact quotient
\* num/den of the summed points_per_million (hundredths) and the squad size
analyzer_update(s) ==
    IF IsNone(s.current_team_players)
    THEN AnalyzerFailure("'NoneType' object is not iterable")
    ELSE
    LET current_team_players == Get(s.current_team_players)
    IN  IF current_team_players # <<>> /\ (IsNone(s.all_players) \/ IsNone(s.fixtures))
        THEN AnalyzerFailure("'NoneType' object is not iterable")
        ELSE
        LET player_analyses ==
                [i \in 1..Len(current_team_players) |->
                    PlayerAnalysis(current_team_players[i], Get(s.all_players),
                                   Get(s.fixtures))]
            raising == {i \in 1..Len(player_analyses) : player_analyses[i].value.exc # ""}
            underperformers == find_underperformers(current_team_players, ThresholdForm)
            avg_points_per_million ==
                Mean(SumSeq([i \in 1..Len(player_analyses) |->
                                player_analyses[i].value.points_per_million]),
                     Len(player_analyses))
        IN  IF raising # {}
            THEN AnalyzerFailure(player_analyses[CHOOSE i \in raising :
                                     \A j \in raising : i <= j].value.exc)
            ELSE IF avg_points_per_million.exc # ""
            THEN AnalyzerFailure(avg_points_per_million.exc)
            ELSE [form_analysis |-> Some([player_analyses |-> player_analyses,
                                          underperformers |-> underperformers]),
                  fixture_analysis |-> Some([hard_fixtures |-> HardFixtures(player_analyses),
                                             easy_fixtures |-> EasyFixtures(player_analyses)]),
                  value_analysis |->
                      Some([poor_value_count |-> PoorValue(player_analyses),
                            avg_points_per_million |->
                                [num |-> avg_points_per_million.num,
                                 den |-> avg_points_per_million.den]]),
                  team_weaknesses |-> Some(Weaknesses(underperformers, player_analyses)),
                  step_completed |-> "analysis",
                  error |-> None]

----------------------------------------------------------------------------
(* Suggest node: agents/nodes/suggester.py *)

(* The LLM's reply is a sequence of tokens [t, v]:                         *)
(*   "fence_json"  the characters ```json                                  *)
(*   "fence"       the characters ```                                      *)
(*   "prose"       text that is neither JSON nor a fence                   *)
(*   "json"        one complete JSON document, whose value is v            *)
(*   "json_cut"    a JSON document whose last character is missing         *)
(* A JSON value is [kind, suggestions]: an object (with its "suggestions"  *)
(* entry, None when the key is absent) or an array.                        *)

NoValue == [kind |-> "none", suggestions |-> None]
Token(t) == [t |-> t, v |-> NoValue]
Json(v) == [t |-> "json", v |-> v]

SubSeqFrom(text, from) == SubSeq(text, from, Len(text))

\* text.find(fence, start): the first index >= start of a token containing
\* ``` (0 when there is none; "```json" contains "```")
FindFence(text, start) ==
    LET hits == {i \in start..Len(text) : text[i].t \in {"fence", "fence_json"}}
    IN  IF hits = {} THEN 0 ELSE CHOOSE i \in hits : \A j \in hits : i <= j

FindFenceJson(text) ==
    LET hits == {i \in 1..Len(text) : text[i].t = "fence_json"}
    IN  IF hits = {} THEN 0 ELSE CHOOSE i \in hits : \A j \in hits : i <= j

\* text[:-1]: the last character is dropped
DropLastChar(text) ==
    IF text = <<>> THEN <<>>
    ELSE LET last == text[Len(text)]
         IN  SubSeq(text, 1, Len(text) - 1)
             \o <<IF last.t = "json" THEN Token("json_cut") ELSE last>>

\* text[json_start:json_end] where json_end = text.find("```", json_start)
Fenced(text, opening) ==
    LET closing == FindFence(text, opening + 1)
    IN  IF closing = 0 THEN DropLastChar(SubSeqFrom(text, opening + 1))
        ELSE SubSeq(text, opening + 1, closing - 1)

ExtractJson(response_text) ==
    IF FindFenceJson(response_text) # 0
    THEN Fenced(response_text, FindFenceJson(response_text))
    ELSE IF FindFence(response_text, 1) # 0
    THEN Fenced(response_text, FindFence(response_text, 1))
    ELSE response_text

\* json.loads: the text must be exactly one JSON document
json_loads(text) ==
    IF Len(text) = 1 /\ text[1].t = "json"
    THEN [exc |-> "", value |-> text[1].v]
    ELSE [exc |-> "JSONDecodeError", value |-> NoValue]

\* s.get("player_in_id") in current_squad_ids
InSquad(suggestion, current_squad_ids) ==
    ~IsNone(suggestion.player_in_id) /\ Get(suggestion.player_in_id) \in current_squad_ids

RECURSIVE ValidSuggestions_Reversed(_, _)
ValidSuggestions_Reversed(suggestions, current_squad_ids) ==
    IF suggestions = <<>> THEN <<>>
    ELSE ValidSuggestions_Reversed(Tail(suggestions), current_squad_ids)
         \o (IF InSquad(Head(suggestions), current_squad_ids)
             THEN <<>> ELSE <<Head(suggestions)>>)

RECURSIVE ValidSuggestions_Loop(_, _)
ValidSuggestions_Loop(suggestions, current_squad_ids) ==
    IF suggestions = <<>> THEN <<>>
    ELSE (IF InSquad(Head(suggestions), current_squad_ids)
          THEN <<>> ELSE <<Head(suggestions)>>)
         \o ValidSuggestions_Loop(Tail(suggestions), current_squad_ids)

ValidSuggestions(suggestions, current_squad_ids) ==
    ValidSuggestions_Loop(suggestions, current_squad_ids)

FindPlayer_MissingKeyIsNone(all_players, id, key) ==
    IF all_players = <<>> \/ IsNone(id) THEN [exc |-> "", found |-> None]
    ELSE LET hits == {i \in 1..Len(all_players) : all_players[i].id = Get(id)}
         IN  [exc |-> "",
              found |-> IF hits = {} THEN None
                        ELSE Some(all_players[CHOOSE i \in hits : \A j \in hits : i <= j])]

\* next((p for p in all_players if p["id"] == suggestion[key]), None): the
\* subscript is evaluated once per pool entry visited, so a missing key
\* raises only when the pool is not empty
FindPlayer(all_players, id, key) ==
    IF all_players = <<>> THEN [exc |-> "", found |-> None]
    ELSE IF IsNone(id) THEN [exc |-> key, found |-> None]
    ELSE LET hits == {i \in 1..Len(all_players) : all_players[i].id = Get(id)}
         IN  [exc |-> "",
              found |-> IF hits = {} THEN None
                        ELSE Some(all_players[CHOOSE i \in hits : \A j \in hits : i <= j])]

\* one turn of "for suggestion in suggestions"; bank_after is in tenths
EnhanceOne(suggestion, all_players, bank) ==
    LET player_out == FindPlayer(all_players, suggestion.player_out_id, "'player_out_id'")
        player_in == FindPlayer(all_players, suggestion.player_in_id, "'player_in_id'")
    IN  IF player_out.exc # "" THEN [exc |-> player_out.exc, suggestion |-> suggestion]
        ELSE IF player_in.exc # "" THEN [exc |-> player_in.exc, suggestion |-> suggestion]
        ELSE IF ~IsNone(player_out.found) /\ ~IsNone(player_in.found)
        THEN IF IsNone(suggestion.cost_change)
             THEN [exc |-> "'cost_change'", suggestion |-> suggestion]
             ELSE [exc |-> "",
                   suggestion |-> [suggestion EXCEPT
                       !.player_out = player_out.found,
                       !.player_in = player_in.found,
                       !.bank_after = Some(bank - Get(suggestion.cost_change))]]
        ELSE [exc |-> "", suggestion |-> suggestion]

RECURSIVE Enhance(_, _, _)
Enhance(suggestions, all_players, bank) ==
    IF suggestions = <<>> THEN [exc |-> "", suggestions |-> <<>>]
    ELSE LET first == EnhanceOne(Head(suggestions), all_players, bank)
         IN  IF first.exc # "" THEN [exc |-> first.exc, suggestions |-> <<>>]
             ELSE LET rest == Enhance(Tail(suggestions), all_players, bank)
                  IN  IF rest.exc # "" THEN rest
                      ELSE [exc |-> "", suggestions |-> <<first.suggestion>> \o rest.suggestions]

SquadIds(current_team_players) ==
    {current_team_players[i].id : i \in 1..Len(current_team_players)}

\* _mlflow_available = None at import
NotChecked == [available |-> None, probes |-> 0, calls |-> 0]

\* what the connectivity probe and the set-up after it can do: connect_ex
\* returns non-zero, the set-up raises, or the set-up goes through
ProbeOutcomes == {"refused", "setup_error", "connected"}

\* _setup_mlflow(), on the module's flag; probes counts the connect_ex calls
\* and calls the calls of _setup_mlflow
setup_mlflow(m, probe) ==
    IF m.available = Some(FALSE)
    THEN [m EXCEPT !.calls = @ + 1]
    ELSE [available |-> Some(probe = "connected"),
          probes |-> m.probes + 1,
          calls |-> m.calls + 1]

\* [c for c in candidates if c["id"] not in current_squad_ids]
NotOwned(candidates, current_squad_ids) ==
    SelectSeq(candidates, LAMBDA c : c.id \notin current_squad_ids)

\* one pass of the loop over the underperformers; costs and the bank are in
\* tenths of a million, and for the costs sampled here
\* (now_cost / 10) + bank / 10 is exactly (now_cost + bank) / 10
ReplacementEntry(under, all_players, current_squad_ids, bank) ==
    LET player == under.player
        max_cost == player.now_cost + bank
        candidates == find_top_performers_by_position(all_players, player.position,
                                                      max_cost, CandidateFetch)
    IN  [player_out |-> player, reasons |-> under.reasons,
         candidates |-> Take(NotOwned(candidates, current_squad_ids), MaxCandidates)]

\* the dict of the prompt, keyed by web_name: a later underperformer of the
\* same name replaces the earlier one. <<>> when the state lacks what the
\* loop reads (the node has raised before)
replacement_candidates(s) ==
    IF IsNone(s.current_team_players) \/ IsNone(s.team_summary)
       \/ IsNone(s.form_analysis) \/ IsNone(s.all_players)
    THEN <<>>
    ELSE
    LET unders == Take(Get(s.form_analysis).underperformers, MaxUnderperformers)
        names == {unders[i].player.web_name : i \in 1..Len(unders)}
        last(name) == CHOOSE i \in 1..Len(unders) :
                         /\ unders[i].player.web_name = name
                         /\ \A j \in 1..Len(unders) :
                               unders[j].player.web_name = name => j <= i
    IN  [name \in names |->
            ReplacementEntry(unders[last(name)], Get(s.all_players),
                             SquadIds(Get(s.current_team_players)),
                             Get(s.team_summary).bank)]

SuggesterFailure_ResetsError(detail) ==
    [error |-> None, step_completed |-> "suggestion_failed"]

SuggesterFailure(detail) ==
    [error |-> Some(Err("Suggestion failed", detail)),
     step_completed |-> "suggestion_failed"]

ParseFailure_Generic(detail) ==
    [error |-> Some(Err("Suggestion failed", detail)),
     step_completed |-> "suggestion_failed"]

ParseFailure(detail) ==
    [error |-> Some(Err("Failed to parse suggestions", detail)),
     step_completed |-> "suggestion_failed"]

Raised_LlmCalled(detail, llm_called, suggestions) ==
    [update |-> SuggesterFailure(detail), llm_called |-> TRUE, parsed |-> suggestions]

Raised(detail, llm_called, suggestions) ==
    [update |-> SuggesterFailure(detail), llm_called |-> llm_called, parsed |-> suggestions]

\* one run of the node: the dict it returns, whether llm.ainvoke was reached
\* and the suggestion list json.loads produced (None when it was not reached).
\* outcome: "no_llm" (ChatOpenAI(...) raises), "llm_error" (llm.ainvoke
\* raises) or "reply", with response.content = response_text
suggester_run(s, outcome, response_text) ==
    IF outcome = "no_llm" THEN Raised("OpenAIError", FALSE, None)
    ELSE IF IsNone(s.current_team_players)
    THEN Raised("'NoneType' object is not iterable", FALSE, None)
    ELSE IF IsNone(s.team_summary) \/ IsNone(s.form_analysis)
    THEN Raised("'NoneType' object is not subscriptable", FALSE, None)
    ELSE IF IsNone(s.team_weaknesses)
    THEN Raised("'NoneType' object is not iterable", FALSE, None)
    ELSE IF outcome = "llm_error" THEN Raised("APIError", TRUE, None)
    ELSE
    LET loaded == json_loads(ExtractJson(response_text))
    IN  IF loaded.exc # ""
        THEN [update |-> ParseFailure(loaded.exc), llm_called |-> TRUE, parsed |-> None]
        ELSE IF loaded.value.kind # "object"
        THEN Raised("'list' object has no attribute 'get'", TRUE, None)
        ELSE
        LET suggestions == IF IsNone(loaded.value.suggestions) THEN <<>>
                           ELSE Get(loaded.value.suggestions)
            current_squad_ids == SquadIds(Get(s.current_team_players))
            enhanced == Enhance(ValidSuggestions(suggestions, current_squad_ids),
                                Get(s.all_players), Get(s.team_summary).bank)
        IN  IF enhanced.exc # ""
            THEN Raised(enhanced.exc, TRUE, Some(suggestions))
            ELSE [update |-> [transfer_suggestions |-> enhanced.suggestions,
                              step_completed |-> "suggestion",
                              error |-> None],
                  llm_called |-> TRUE,
                  parsed |-> Some(suggestions)]

(* The replies the LLM may give *)

Suggestion(player_out_id, player_in_id, cost_change) ==
    [player_out_id |-> player_out_id, player_in_id |-> player_in_id,
     cost_change |-> cost_change,
     player_out |-> None, player_in |-> None, bank_after |-> None]

SuggestionSamples ==
    {Suggestion(Some(1), Some(2), Some(5)),
     Suggestion(Some(2), Some(1), Some(3)),
     Suggestion(Some(1), Some(MaxPlayers), Some(5)),
     Suggestion(Some(1), Some(2), None),
     Suggestion(None, Some(2), Some(5)),
     Suggestion(Some(1), None, Some(5))}

SuggestionLists == UNION {[1..n -> SuggestionSamples] : n \in 0..MaxSuggestions}

Object(suggestions) == [kind |-> "object", suggestions |-> suggestions]

JsonValues ==
    {Object(Some(l)) : l \in SuggestionLists}
    \cup {Object(None), [kind |-> "array", suggestions |-> None]}

SampleValue == Object(Some(<<Suggestion(Some(1), Some(2), Some(5))>>))

ReplyTexts ==
    {<<Json(v)>> : v \in JsonValues}
    \cup {<<Token("prose")>>,
          <<Token("prose"), Json(SampleValue)>>,
          <<Token("fence_json"), Json(SampleValue), Token("fence")>>,
          <<Token("prose"), Token("fence_json"), Json(SampleValue), Token("fence"),
            Token("prose")>>,
          <<Token("fence"), Json(SampleValue), Token("fence")>>,
          <<Token("fence_json"), Json(SampleValue)>>,
          <<Token("fence_json"), Token("prose"), Token("fence")>>}

----------------------------------------------------------------------------
(* Orchestrator: agents/graph.py *)

WorkflowResult_IgnoresError(final) ==
    [success |-> TRUE,
     suggestions |-> final.transfer_suggestions,
     team_summary |-> final.team_summary,
     team_weaknesses |-> final.team_weaknesses,
     gameweek |-> final.gameweek]

\* what run_suggestion_workflow returns for the state graph.ainvoke returned
WorkflowResult(final) ==
    IF ~IsNone(final.error)
    THEN [success |-> FALSE, error |-> Get(final.error)]
    ELSE [success |-> TRUE,
          suggestions |-> final.transfer_suggestions,
          team_summary |-> final.team_summary,
          team_weaknesses |-> final.team_weaknesses,
          gameweek |-> final.gameweek]

WorkflowFailed_NoMessage(detail) == [success |-> FALSE, error |-> Err("", "")]

WorkflowFailed(detail) == [success |-> FALSE, error |-> Err("Workflow failed", detail)]

NoCall == [op |-> "none"]

\* what is observable of a client context: the requests issued, and whether
\* the last one raised
Traffic(c) == [log |-> c.log, raised |-> c.raised]

Init ==
    /\ pc = "fetch_data"
    /\ state \in {InitialState(m) : m \in ManagerIds}
    /\ result = None
    /\ net = Traffic(NewClient(0))
    /\ invoked = <<>>
    /\ llm_calls = 0
    /\ parsed = None
    /\ call = NoCall
    /\ prompt = None
    /\ mlflow = NotChecked

\* the except branch of run_suggestion_workflow: building or starting the
\* graph raises before any node has run
GraphRaises ==
    /\ pc = "fetch_data"
    /\ pc' = "returned"
    /\ result' = Some(WorkflowFailed("graph"))
    /\ UNCHANGED <<state, net, invoked, llm_calls, parsed, call, prompt, mlflow>>

\* the node, for what the provider serves: the current gameweek, the pool and
\* the picks (squads), and the ordinal of the request that fails (0: none)
FetchNode(gameweeks, fail_ats, squads) ==
    /\ pc = "fetch_data"
    /\ \E fail_at \in fail_ats, squad \in squads,
          current_gameweek \in gameweeks, bank \in BankValues :
          LET c == FetchTraffic(fail_at, state.manager_id, current_gameweek)
          IN  /\ net' = Traffic(c)
              /\ state' = Merge(state, data_fetcher_update(c, state.manager_id,
                                    squad.all_players, squad.team_picks,
                                    current_gameweek, bank))
    /\ invoked' = Append(invoked, "fetch_data")
    /\ pc' = "analyze"
    /\ UNCHANGED <<result, llm_calls, parsed, call, prompt, mlflow>>

\* the requests of a Fetch over a full window: any of them may fail, or none
AnyRequest == 0..(5 + 2 * FixtureWindow)

data_fetcher_node == FetchNode(GameweekSamples, AnyRequest, SmallSquads)

analyzer_node ==
    /\ pc = "analyze"
    /\ state' = Merge(state, analyzer_update(state))
    /\ invoked' = Append(invoked, "analyze")
    /\ pc' = "suggest"
    /\ UNCHANGED <<result, net, llm_calls, parsed, call, prompt, mlflow>>

\* the node, for the replies the LLM may give
SuggestNode(reply_texts) ==
    /\ pc = "suggest"
    /\ LET built == replacement_candidates(state)
       IN  \E outcome \in {"no_llm", "llm_error", "reply"} :
           \E response_text \in (IF outcome = "reply" THEN reply_texts ELSE {<<>>}) :
              LET run == suggester_run(state, outcome, response_text)
              IN  /\ state' = Merge(state, run.update)
                  /\ llm_calls' = llm_calls + (IF run.llm_called THEN 1 ELSE 0)
                  /\ parsed' = run.parsed
                  /\ prompt' = IF run.llm_called THEN Some(built) ELSE prompt
    /\ \E probe \in ProbeOutcomes : mlflow' = setup_mlflow(mlflow, probe)
    /\ invoked' = Append(invoked, "suggest")
    /\ pc' = "END"
    /\ UNCHANGED <<result, net, call>>

suggester_node == SuggestNode(ReplyTexts)

\* graph.ainvoke has returned its final state
run_suggestion_workflow ==
    /\ pc = "END"
    /\ result' = Some(WorkflowResult(state))
    /\ pc' = "returned"
    /\ UNCHANGED <<state, net, invoked, llm_calls, parsed, call, prompt, mlflow>>

Next == GraphRaises \/ data_fetcher_node \/ analyzer_node \/ suggester_node
           \/ run_suggestion_workflow

Spec == Init /\ [][Next]_vars

----------------------------------------------------------------------------
(* Pipeline runs for a manager with a full squad of known players *)

FetchFullSquad == FetchNode(GameweekSamples, {0, 1}, FullSquads)

\* replies naming a player of the squad and one of the market
SquadReplies ==
    {<<Json(Object(Some(<<Suggestion(Some(1), Some(SquadSize + 1), Some(-10))>>)))>>,
     <<Json(Object(Some(<<Suggestion(Some(1), Some(2), Some(0))>>)))>>,
     <<Token("prose")>>}

SuggestForFullSquad == SuggestNode(SquadReplies)

SquadNext ==
    FetchFullSquad \/ analyzer_node \/ SuggestForFullSquad \/ run_suggestion_workflow

SquadSpec == Init /\ [][SquadNext]_vars

----------------------------------------------------------------------------
(* Direct calls of the scoring tools: the tools keep no state, so a        *)
(* behaviour is one call on arguments drawn from the sample sets           *)

DifficultyPairs == {<<d, MaxDifficulty + 1 - d>> : d \in 1..MaxDifficulty}

FixtureSamples ==
    {[id |-> 1, event |-> 1,
      team_h |-> h, team_a |-> 1 + (h % NumTeams),
      team_h_name |-> TeamNames[h], team_a_name |-> TeamNames[1 + (h % NumTeams)],
      team_h_difficulty |-> d[1], team_a_difficulty |-> d[2],
      finished |-> f] : h \in 1..NumTeams, d \in DifficultyPairs, f \in BOOLEAN}

FixtureLists == UNION {[1..n -> FixtureSamples] : n \in 0..MaxFixtures}

CostSamples == {0, 40, 47, 100}
PointSamples == {-2, 0, 60, 94, 100, 250}

CallFixtureDifficulty ==
    /\ call = NoCall
    /\ \E player_team_id \in 1..NumTeams, fixtures \in FixtureLists,
          next_n_games \in {1, DefaultNextN} :
          call' = [op |-> "calculate_fixture_difficulty",
                   player_team_id |-> player_team_id, fixtures |-> fixtures,
                   next_n_games |-> next_n_games,
                   ret |-> calculate_fixture_difficulty(player_team_id, fixtures,
                                                        next_n_games)]
    /\ UNCHANGED <<pc, state, result, net, invoked, llm_calls, parsed, prompt, mlflow>>

CallAnalyzeValue ==
    /\ call = NoCall
    /\ \E now_cost \in CostSamples, total_points \in PointSamples :
          LET player == [PlayerRecord(1) EXCEPT !.now_cost = now_cost,
                                                !.total_points = total_points]
          IN  call' = [op |-> "analyze_value", player |-> player,
                       ret |-> analyze_value(player)]
    /\ UNCHANGED <<pc, state, result, net, invoked, llm_calls, parsed, prompt, mlflow>>

FormSamples == {29, 30, 50}
StatusSamples == {"a", "d", "i", "s", "u"}
ChanceSamples == {None, Some(74), Some(75)}

TeamPlayerSamples ==
    {[PlayerRecord(1) EXCEPT !.form = Some(f), !.status = s,
                             !.chance_of_playing_next_round = ch] :
        f \in FormSamples, s \in StatusSamples, ch \in ChanceSamples}

\* squads of distinct players: the player at index i has id i
TeamPlayerLists ==
    {[i \in 1..Len(l) |-> [l[i] EXCEPT !.id = i]] :
        l \in UNION {[1..n -> TeamPlayerSamples] : n \in 0..MaxPicks}}

CallFindUnderperformers ==
    /\ call = NoCall
    /\ \E team_players \in TeamPlayerLists, threshold_form \in {ThresholdForm, FormGood} :
          call' = [op |-> "find_underperformers", team_players |-> team_players,
                   threshold_form |-> threshold_form,
                   ret |-> find_underperformers(team_players, threshold_form)]
    /\ UNCHANGED <<pc, state, result, net, invoked, llm_calls, parsed, prompt, mlflow>>

\* the provider's elements 1..k, in the provider's order or reversed
PoolSamples ==
    {Pool(k) : k \in 0..Len(PlayerNames)}
    \cup {[i \in 1..k |-> PlayerRecord(k + 1 - i)] : k \in 0..Len(PlayerNames)}

MaxCostSamples == {0, 45, 50, 55, 100}
LimitSamples == {0, 1, 2, 10}

CallFindTopPerformers ==
    /\ call = NoCall
    /\ \E all_players \in PoolSamples, position \in {"GKP", "DEF", "MID", "FWD"},
          max_cost \in MaxCostSamples, limit \in LimitSamples :
          call' = [op |-> "find_top_performers_by_position",
                   all_players |-> all_players, position |-> position,
                   max_cost |-> max_cost, limit |-> limit,
                   ret |-> find_top_performers_by_position(all_players, position,
                                                           max_cost, limit)]
    /\ UNCHANGED <<pc, state, result, net, invoked, llm_calls, parsed, prompt, mlflow>>

\* players whose form or points_per_game may be null
PeerSamples ==
    {[PlayerRecord(1) EXCEPT !.position = position, !.form = form,
                             !.points_per_game = points_per_game] :
        position \in {"MID", "DEF"}, form \in {None, Some(0), Some(30), Some(65)},
        points_per_game \in {None, Some(45)}}

PeerLists == UNION {[1..n -> PeerSamples] : n \in 0..MaxPicks}

\* the player is the first of the pool, or is not in the pool
CallFormScore ==
    /\ call = NoCall
    /\ \E player \in PeerSamples, peers \in PeerLists, listed \in BOOLEAN :
          LET all_players == IF listed THEN <<player>> \o peers ELSE peers
          IN  call' = [op |-> "get_player_form_score", player |-> player,
                       all_players |-> all_players,
                       ret |-> get_player_form_score(player, all_players)]
    /\ UNCHANGED <<pc, state, result, net, invoked, llm_calls, parsed, prompt, mlflow>>

ToolNext ==
    \/ CallFixtureDifficulty \/ CallAnalyzeValue \/ CallFindUnderperformers
    \/ CallFindTopPerformers \/ CallFormScore

ToolSpec == Init /\ [][ToolNext]_vars

----------------------------------------------------------------------------
(* Direct calls of the gateway's read operations, and the Fetch node over  *)
(* every gameweek of the season                                            *)

GatewayCall(op, arg, c) ==
    /\ call = NoCall /\ pc = "fetch_data"
    /\ call' = [op |-> op, arg |-> arg, traffic |-> Traffic(c)]
    /\ UNCHANGED <<pc, state, result, net, invoked, llm_calls, parsed, prompt, mlflow>>

FailAts == 0..2

CallGetAllPlayers ==
    \E f \in FailAts : GatewayCall("get_all_players", 0, get_all_players(NewClient(f)))

CallGetTeams ==
    \E f \in FailAts : GatewayCall("get_teams", 0, get_teams(NewClient(f)))

CallGetCurrentGameweek ==
    \E f \in FailAts :
        GatewayCall("get_current_gameweek", 0, get_current_gameweek(NewClient(f)))

CallGetTeamSummary ==
    \E f \in FailAts, m \in ManagerIds :
        GatewayCall("get_team_summary", m, get_team_summary(NewClient(f), m))

CallGetTeamPicks ==
    \E f \in FailAts, m \in ManagerIds, gw \in 1..LastGameweek :
        GatewayCall("get_team_picks", gw, get_team_picks(NewClient(f), m, gw))

CallGetFixtures ==
    \E f \in FailAts, gw \in 1..LastGameweek :
        GatewayCall("get_fixtures", gw, get_fixtures(NewClient(f), gw))

CallGetLeagueStandings ==
    \E f \in FailAts, league_id \in {314} :
        GatewayCall("get_league_standings", league_id,
                    get_league_standings(NewClient(f), league_id))

FetchAnyGameweek ==
    call = NoCall /\ FetchNode(1..LastGameweek, AnyRequest, SmallSquads)

GatewayNext ==
    \/ CallGetAllPlayers \/ CallGetTeams \/ CallGetCurrentGameweek
    \/ CallGetTeamSummary \/ CallGetTeamPicks \/ CallGetFixtures
    \/ CallGetLeagueStandings \/ FetchAnyGameweek

GatewaySpec == Init /\ [][GatewayNext]_vars

----------------------------------------------------------------------------
(* The HTTP endpoints: api/transfers.py, api/team.py, api/leagues.py,      *)
(* api/auth.py, api/chat.py. One behaviour serves one request.             *)

(* The text of a chat reply is a sequence of tokens:                       *)
(*   "ws"    whitespace                                                    *)
(*   "text"  text with no part of the sentinel in it                       *)
(*   "S"     the sentinel [NEEDS_SUGGESTIONS]                              *)
(*   "Sa"    the sentinel's first part, [NEEDS_                            *)
(*   "Sb"    the sentinel's second part, SUGGESTIONS]                      *)
(* so that the sentinel occurs where there is an "S" or an "Sa" followed   *)
(* by an "Sb".                                                             *)

ChatTokens == {"ws", "text", "S", "Sa", "Sb"}

ChatReplies == UNION {[1..n -> ChatTokens] : n \in 0..MaxReply}

\* str.strip()
RECURSIVE Strip(_)
Strip(text) ==
    IF text = <<>> THEN <<>>
    ELSE IF Head(text) = "ws" THEN Strip(Tail(text))
    ELSE IF text[Len(text)] = "ws" THEN Strip(SubSeq(text, 1, Len(text) - 1))
    ELSE text

\* text.startswith("[NEEDS_SUGGESTIONS]")
StartsWithSentinel(text) ==
    \/ Len(text) >= 1 /\ text[1] = "S"
    \/ Len(text) >= 2 /\ text[1] = "Sa" /\ text[2] = "Sb"

\* text.replace("[NEEDS_SUGGESTIONS]", ""): the occurrences found scanning
\* the text once from the left are removed
RECURSIVE RemoveSentinel(_)
RemoveSentinel(text) ==
    IF text = <<>> THEN <<>>
    ELSE IF Head(text) = "S" THEN RemoveSentinel(Tail(text))
    ELSE IF Len(text) >= 2 /\ text[1] = "Sa" /\ text[2] = "Sb"
    THEN RemoveSentinel(Tail(Tail(text)))
    ELSE <<Head(text)>> \o RemoveSentinel(Tail(text))

\* what chat_message makes of response.content
ChatReply(content) ==
    LET reply == Strip(content)
        is_suggestion_request == StartsWithSentinel(reply)
    IN  [reply |-> IF is_suggestion_request THEN Strip(RemoveSentinel(reply)) ELSE reply,
         is_suggestion_request |-> is_suggestion_request]

\* "not fpl_cookie": the header is absent or empty
NoCookie_OnlyAbsent(fpl_cookie) == IsNone(fpl_cookie)

NoCookie(fpl_cookie) == IsNone(fpl_cookie) \/ Get(fpl_cookie) = ""

\* the X-FPL-Cookie header: absent, empty, a session the provider accepts,
\* a session the provider rejects
Cookies == {None, Some(""), Some("valid"), Some("rejected")}

\* the request the provider fails, among the first n of a client carrying
\* the cookie (0: none): a rejected session fails the first request
FailuresFor(fpl_cookie, n) == IF fpl_cookie = Some("rejected") THEN {1} ELSE 0..n

HTTP_200_OK == "200"
HTTP_401_UNAUTHORIZED == "401"
HTTP_500_INTERNAL_SERVER_ERROR == "500"

\* the endpoint answers (or, with status "pending", awaits the pipeline)
Respond(op, fpl_cookie, status_code, c, next) ==
    /\ pc = "request" /\ call = NoCall
    /\ call' = [op |-> op, cookie |-> fpl_cookie, status |-> status_code,
                traffic |-> Traffic(c)]
    /\ pc' = next
    /\ UNCHANGED <<result, net, invoked, llm_calls, parsed, prompt, mlflow>>

ApiInit ==
    /\ pc = "request"
    /\ state \in {InitialState(m) : m \in ManagerIds}
    /\ result = None
    /\ net = Traffic(NewClient(0))
    /\ invoked = <<>>
    /\ llm_calls = 0
    /\ parsed = None
    /\ call = NoCall
    /\ prompt = None
    /\ mlflow = NotChecked

\* POST /api/transfers/suggest, up to the call of run_suggestion_workflow
get_transfer_suggestions ==
    \E fpl_cookie \in Cookies, manager_id \in ManagerIds :
        IF NoCookie(fpl_cookie)
        THEN /\ Respond("POST /api/transfers/suggest", fpl_cookie, HTTP_401_UNAUTHORIZED,
                        NewClient(0), "responded")
             /\ UNCHANGED state
        ELSE /\ Respond("POST /api/transfers/suggest", fpl_cookie, "pending",
                        NewClient(0), "fetch_data")
             /\ state' = [InitialState(manager_id) EXCEPT !.fpl_cookie = Get(fpl_cookie)]

\* the Fetch node of the run the endpoint started, with the client carrying
\* the request's cookie
FetchWithCookie ==
    FetchNode(GameweekSamples, FailuresFor(Some(state.fpl_cookie), 5 + 2 * FixtureWindow),
              SmallSquads)

\* POST /api/transfers/suggest, from the return of run_suggestion_workflow
SuggestionResponse ==
    /\ pc = "returned" /\ call # NoCall /\ call.status = "pending"
    /\ call' = [call EXCEPT !.status = IF Get(result).success THEN HTTP_200_OK
                                        ELSE HTTP_500_INTERNAL_SERVER_ERROR]
    /\ pc' = "responded"
    /\ UNCHANGED <<state, result, net, invoked, llm_calls, parsed, prompt, mlflow>>

StatusOf(c) == IF c.raised THEN HTTP_500_INTERNAL_SERVER_ERROR ELSE HTTP_200_OK

\* GET /api/team/{manager_id}
get_team ==
    \E fpl_cookie \in Cookies, manager_id \in ManagerIds, current_gw \in GameweekSamples :
        IF NoCookie(fpl_cookie)
        THEN /\ Respond("GET /api/team", fpl_cookie, HTTP_401_UNAUTHORIZED,
                        NewClient(0), "responded")
             /\ UNCHANGED state
        ELSE \E f \in FailuresFor(fpl_cookie, 4) :
               LET c == get_all_players(get_team_picks(get_current_gameweek(
                            get_team_summary(NewClient(f), manager_id)),
                            manager_id, current_gw))
               IN  /\ Respond("GET /api/team", fpl_cookie, StatusOf(c), c, "responded")
                   /\ UNCHANGED state

\* GET /api/team/{manager_id}/picks/{gameweek}
team_get_team_picks ==
    \E fpl_cookie \in Cookies, manager_id \in ManagerIds, gameweek \in GameweekSamples :
        IF NoCookie(fpl_cookie)
        THEN /\ Respond("GET /api/team/picks", fpl_cookie, HTTP_401_UNAUTHORIZED,
                        NewClient(0), "responded")
             /\ UNCHANGED state
        ELSE \E f \in FailuresFor(fpl_cookie, 1) :
               LET c == get_team_picks(NewClient(f), manager_id, gameweek)
               IN  /\ Respond("GET /api/team/picks", fpl_cookie, StatusOf(c), c, "responded")
                   /\ UNCHANGED state

\* GET /api/leagues/manager/{manager_id}
leagues_get_manager_leagues ==
    \E fpl_cookie \in Cookies, manager_id \in ManagerIds :
    \E f \in FailuresFor(fpl_cookie, 1) :
        LET c == get_manager_leagues(NewClient(f), manager_id)
        IN  /\ Respond("GET /api/leagues/manager", fpl_cookie, StatusOf(c), c, "responded")
            /\ UNCHANGED state

\* GET /api/leagues/{league_id}/standings
leagues_get_league_standings ==
    \E fpl_cookie \in Cookies, league_id \in {314} :
    \E f \in FailuresFor(fpl_cookie, 1) :
        LET c == get_league_standings(NewClient(f), league_id)
        IN  /\ Respond("GET /api/leagues/standings", fpl_cookie, StatusOf(c), c, "responded")
            /\ UNCHANGED state

\* POST /api/auth/login: the cookie is a field of the request body
login ==
    \E fpl_cookie \in Cookies \ {None}, manager_id \in ManagerIds :
    \E f \in FailuresFor(fpl_cookie, 2) :
        LET probe == validate_cookie(NewClient(f))
            c == get_team_summary(probe.c, manager_id)
        IN  /\ IF ~probe.valid
               THEN Respond("POST /api/auth/login", fpl_cookie, HTTP_401_UNAUTHORIZED,
                            probe.c, "responded")
               ELSE Respond("POST /api/auth/login", fpl_cookie,
                            IF c.raised THEN HTTP_401_UNAUTHORIZED ELSE HTTP_200_OK,
                            c, "responded")
            /\ UNCHANGED state

\* POST /api/chat/message. outcome: "no_llm" (ChatOpenAI(...) raises),
\* "llm_error" (llm.ainvoke raises) or "reply", with response.content = content
chat_message ==
    \E fpl_cookie \in Cookies, manager_id \in ManagerIds, current_gw \in GameweekSamples :
        IF NoCookie(fpl_cookie)
        THEN /\ Respond("POST /api/chat/message", fpl_cookie, HTTP_401_UNAUTHORIZED,
                        NewClient(0), "responded")
             /\ UNCHANGED state
        ELSE \E f \in FailuresFor(fpl_cookie, 4),
                outcome \in {"no_llm", "llm_error", "reply"} :
             \E content \in (IF outcome = "reply" THEN ChatReplies ELSE {<<>>}) :
               LET c == get_all_players(get_team_picks(get_team_summary(
                            get_current_gameweek(NewClient(f)), manager_id),
                            manager_id, current_gw))
               IN  /\ pc = "request" /\ call = NoCall
                   /\ call' = [op |-> "POST /api/chat/message", cookie |-> fpl_cookie,
                               status |-> IF outcome = "reply" THEN HTTP_200_OK
                                          ELSE HTTP_500_INTERNAL_SERVER_ERROR,
                               traffic |-> Traffic(c),
                               llm_called |-> outcome # "no_llm",
                               content |-> content,
                               body |-> IF outcome = "reply" THEN ChatReply(content)
                                        ELSE ChatReply(<<>>)]
                   /\ pc' = "responded"
                   /\ UNCHANGED <<state, result, net, invoked, llm_calls, parsed, prompt, mlflow>>

ApiNext ==
    \/ get_transfer_suggestions \/ FetchWithCookie \/ GraphRaises \/ analyzer_node
    \/ suggester_node \/ run_suggestion_workflow \/ SuggestionResponse
    \/ get_team \/ team_get_team_picks \/ leagues_get_manager_leagues
    \/ leagues_get_league_standings \/ login \/ chat_message

ApiSpec == ApiInit /\ [][ApiNext]_vars

----------------------------------------------------------------------------
(* The run of the graph step by step: a node is started, its gateway       *)
(* requests are issued and answered one at a time, and it returns. Here    *)
(* call is what is in progress: the nodes running, the requests in flight, *)
(* the requests the running node has still to issue and the dict it will   *)
(* return.                                                                 *)

\* the edges of the graph: fetch_data -> analyze -> suggest -> END
NextNode(node) ==
    CASE node = "fetch_data" -> "analyze"
      [] node = "analyze" -> "suggest"
      [] node = "suggest" -> "END"

InProgress(running, inflight, todo, update, llm_called, suggestions) ==
    [op |-> "graph", running |-> running, inflight |-> inflight, todo |-> todo,
     update |-> update, llm_called |-> llm_called, parsed |-> suggestions]

Idle == InProgress({}, {}, <<>>, <<>>, FALSE, None)

\* "await": the coroutine goes on only when what it awaits has completed
Awaited_Gather(pending) == TRUE

Awaited(pending) == pending = {}

FlowInit ==
    /\ pc = "fetch_data"
    /\ state \in {InitialState(m) : m \in ManagerIds}
    /\ result = None
    /\ net = Traffic(NewClient(0))
    /\ invoked = <<>>
    /\ llm_calls = 0
    /\ parsed = None
    /\ call = Idle
    /\ prompt = None
    /\ mlflow = NotChecked

\* the graph starts the node pc names, once the node before it has returned
StartNode(node, todo, update, llm_called, suggestions) ==
    /\ pc = node /\ Awaited(call.running)
    /\ invoked' = Append(invoked, node)
    /\ call' = InProgress(call.running \cup {node}, {}, todo, update, llm_called,
                          suggestions)
    /\ UNCHANGED <<pc, state, result, net, llm_calls, parsed>>

StartFetch ==
    /\ UNCHANGED <<prompt, mlflow>>
    /\ \E fail_at \in AnyRequest, squad \in SmallSquads,
       current_gameweek \in GameweekSamples, bank \in BankValues :
        LET c == FetchTraffic(fail_at, state.manager_id, current_gameweek)
        IN  StartNode("fetch_data", c.log,
                      data_fetcher_update(c, state.manager_id, squad.all_players,
                                          squad.team_picks, current_gameweek, bank),
                      FALSE, parsed)

StartAnalyze ==
    /\ UNCHANGED <<prompt, mlflow>>
    /\ StartNode("analyze", <<>>, analyzer_update(state), FALSE, parsed)

\* the node runs up to its only await, the LLM call
StartSuggest ==
    /\ LET built == replacement_candidates(state)
       IN  \E outcome \in {"no_llm", "llm_error", "reply"} :
           \E response_text \in (IF outcome = "reply" THEN ReplyTexts ELSE {<<>>}) :
              LET run == suggester_run(state, outcome, response_text)
              IN  /\ StartNode("suggest", <<>>, run.update, run.llm_called, run.parsed)
                  /\ prompt' = IF run.llm_called THEN Some(built) ELSE prompt
    /\ \E probe \in ProbeOutcomes : mlflow' = setup_mlflow(mlflow, probe)

\* the running node issues its next request
IssueRequest ==
    /\ call.running # {} /\ call.todo # <<>> /\ Awaited(call.inflight)
    /\ net' = [net EXCEPT !.log = Append(@, Head(call.todo))]
    /\ call' = [call EXCEPT !.inflight = @ \cup {[n |-> Len(net.log) + 1,
                                                   request |-> Head(call.todo)]},
                            !.todo = Tail(@)]
    /\ UNCHANGED <<pc, state, result, invoked, llm_calls, parsed, prompt, mlflow>>

\* a request in flight is answered; the last request of a failing Fetch raises
ReceiveResponse ==
    /\ \E r \in call.inflight : call' = [call EXCEPT !.inflight = @ \ {r}]
    /\ net' = [net EXCEPT !.raised = /\ call.todo = <<>>
                                     /\ "step_completed" \in DOMAIN call.update
                                     /\ call.update.step_completed = "data_fetch_failed"]
    /\ UNCHANGED <<pc, state, result, invoked, llm_calls, parsed, prompt, mlflow>>

\* the running node returns its dict, which the graph merges into the state
ReturnNode ==
    /\ call.running = {pc} /\ call.todo = <<>> /\ Awaited(call.inflight)
    /\ state' = Merge(state, call.update)
    /\ llm_calls' = llm_calls + (IF call.llm_called THEN 1 ELSE 0)
    /\ parsed' = call.parsed
    /\ pc' = NextNode(pc)
    /\ call' = Idle
    /\ UNCHANGED <<result, net, invoked, prompt, mlflow>>

FlowNext ==
    \/ StartFetch \/ StartAnalyze \/ StartSuggest \/ IssueRequest \/ ReceiveResponse
    \/ ReturnNode \/ run_suggestion_workflow

FlowSpec == FlowInit /\ [][FlowNext]_vars

----------------------------------------------------------------------------
(* One server process: pipeline runs one after another, sharing the        *)
(* module-level state of agents/nodes/suggester.py                         *)

FetchLastGameweek == FetchNode({LastGameweek}, {0, 1}, SmallSquads)

\* the next call of run_suggestion_workflow in the process: a new initial
\* state and a new client; the module's flag stays
NewRun ==
    /\ pc = "returned" /\ mlflow.calls < MaxRuns
    /\ pc' = "fetch_data"
    /\ state' \in {InitialState(m) : m \in ManagerIds}
    /\ result' = None
    /\ net' = Traffic(NewClient(0))
    /\ invoked' = <<>>
    /\ llm_calls' = 0
    /\ parsed' = None
    /\ prompt' = None
    /\ UNCHANGED <<call, mlflow>>

ProcessNext ==
    \/ GraphRaises \/ FetchLastGameweek \/ analyzer_node \/ suggester_node
    \/ run_suggestion_workflow \/ NewRun

ProcessSpec == Init /\ [][ProcessNext]_vars

----------------------------------------------------------------------------
(* Properties *)

Returned == pc = "returned"
FetchFailed == "fetch_data" \in Elems(invoked) /\ net.raised
GraphCompleted == invoked = <<"fetch_data", "analyze", "suggest">>

\* C1: when a gateway call of the Fetch stage fails, the caller receives
\* {success: false, error: "Failed to fetch data: ..."} and neither the Analyze
\* nor the Suggest stage is invoked in that run.
C1_FetchFailureStopsPipeline ==
    (Returned /\ FetchFailed) =>
        /\ Get(result).success = FALSE
        /\ Get(result).error.prefix = "Failed to fetch data"
        /\ "analyze" \notin Elems(invoked)
        /\ "suggest" \notin Elems(invoked)

Derived(s) ==
    <<s.form_analysis, s.fixture_analysis, s.value_analysis, s.team_weaknesses,
      s.transfer_suggestions>>

\* C2: once the state's error field is set, no later step of the run changes
\* form_analysis, fixture_analysis, value_analysis, team_weaknesses or
\* transfer_suggestions.
C2_DerivedFrozenAfterError ==
    [][~IsNone(state.error) => Derived(state') = Derived(state)]_vars

\* an error set by the Fetch stage, with both later stages executed after it
C2_Witness ==
    /\ Returned /\ FetchFailed /\ GraphCompleted
    /\ state.step_completed = "suggestion_failed"

\* C3: in a successful run no returned suggestion has a player_in_id that is
\* the element of one of the manager's picks for the gameweek.
C3_NoIncomingPickedPlayer ==
    (Returned /\ Get(result).success) =>
        \A i \in 1..Len(Get(result).suggestions) :
            LET player_in_id == Get(result).suggestions[i].player_in_id
            IN  ~IsNone(player_in_id) =>
                    Get(player_in_id) \notin PickElements(Get(state.current_team_picks))

\* the parsed suggestions whose player_in_id is no id of the current squad
NotInSquad(suggestions, squad) ==
    LET Keep(s) == IsNone(s.player_in_id) \/ Get(s.player_in_id) \notin squad
    IN  SelectSeq(suggestions, Keep)

LlmFields(s) == <<s.player_out_id, s.player_in_id, s.cost_change>>

RequestsTo(log, url) == {i \in 1..Len(log) : log[i].url = url}

\* C6: no external call is retried in a run (each gateway request and the LLM
\* call is attempted at most once, and nothing is requested after a failing
\* request), and the caller receives the message of the stage that failed.
C6_NoRetryFailureVerbatim ==
    /\ llm_calls <= 1
    /\ \A i, j \in RequestsTo(net.log, "fixtures/") :
            i # j => net.log[i].arg # net.log[j].arg
    /\ Cardinality(RequestsTo(net.log, "entry/")) <= 1
    /\ Cardinality(RequestsTo(net.log, "entry/event/picks/")) <= 1
    /\ net.raised => Len(net.log) <= 5 + 2 * FixtureWindow
    /\ (Returned /\ FetchFailed) => Get(result).error.prefix = "Failed to fetch data"

SingleRequestOps ==
    {"get_all_players", "get_teams", "get_current_gameweek", "get_team_summary",
     "get_team_picks", "get_league_standings"}

\* the number of gameweeks the Fetch stage asks fixtures for
WindowSize(g) == IF g + 5 <= 38 THEN 6 ELSE 39 - g

\* C7 as stated: every gateway read operation, get_fixtures included, issues
\* exactly one network request per call, and the Fetch stage issues exactly K
\* requests for the fixtures of K gameweeks (5 + K in all).
C7_OneRequestPerOperation ==
    /\ call.op \in SingleRequestOps \cup {"get_fixtures"} => Len(call.traffic.log) = 1
    /\ (pc = "analyze" /\ ~net.raised) => Len(net.log) = 5 + WindowSize(state.gameweek)

\* C7 as amended: the six other operations issue exactly one request per
\* call; get_fixtures issues the fixtures request and then, unless that one
\* fails, one bootstrap-static request; a Fetch stage in which no request
\* fails issues 2K requests for the fixtures of K gameweeks (5 + 2K in all),
\* alternating fixtures and bootstrap-static.
C7_RequestsPerOperation ==
    /\ call.op \in SingleRequestOps => Len(call.traffic.log) = 1
    /\ call.op = "get_fixtures" =>
        LET log == call.traffic.log
        IN  /\ log[1] = Request("fixtures/", call.arg)
            /\ \/ Len(log) = 1 /\ call.traffic.raised
               \/ Len(log) = 2 /\ log[2] = Request("bootstrap-static/", 0)
    /\ (pc = "analyze" /\ ~net.raised) =>
        LET K == WindowSize(state.gameweek)
        IN  /\ Len(net.log) = 5 + 2 * K
            /\ \A n \in 1..K :
                /\ net.log[5 + 2 * n - 1] = Request("fixtures/", state.gameweek + n - 1)
                /\ net.log[5 + 2 * n] = Request("bootstrap-static/", 0)

\* a Fetch stage without failure over a full window of six gameweeks
C7_Witness ==
    /\ pc = "analyze" /\ ~net.raised
    /\ WindowSize(state.gameweek) = 6
    /\ Len(net.log) = 17

IsFixtureCall == call.op = "calculate_fixture_difficulty"

Involves(fixture, team) == fixture.team_h = team \/ fixture.team_a = team

NoUnfinishedFixture(fixtures, team) ==
    \A i \in 1..Len(fixtures) : fixtures[i].finished \/ ~Involves(fixtures[i], team)

\* C8: calculate_fixture_difficulty on a fixture list with no unfinished
\* fixture of the team returns avg_difficulty 3.0, no fixtures and "Unknown".
C8_NoUpcomingFixturesIsNeutral ==
    (IsFixtureCall /\ NoUnfinishedFixture(call.fixtures, call.player_team_id)) =>
        call.ret = [avg_difficulty |-> 300, fixtures |-> <<>>, rating |-> "Unknown"]

\* the team has fixtures in the list, all of them finished
C8_Witness ==
    /\ IsFixtureCall
    /\ NoUnfinishedFixture(call.fixtures, call.player_team_id)
    /\ \E i \in 1..Len(call.fixtures) : Involves(call.fixtures[i], call.player_team_id)
    /\ call.ret.rating = "Unknown"

\* twice the sum of the difficulties collected, against the count
TwiceTotal(upcoming) == 2 * SumSeq([i \in 1..Len(upcoming) |-> upcoming[i].difficulty])

\* C9: with fixtures collected, the rating is "Easy" for a mean below 2.5,
\* "Moderate" from 2.5 up to but excluding 3.5, and "Hard" from 3.5 on.
C9_RatingBuckets ==
    (IsFixtureCall /\ call.ret.fixtures # <<>>) =>
        LET t == TwiceTotal(call.ret.fixtures)
            n == Len(call.ret.fixtures)
        IN  /\ t < 5 * n => call.ret.rating = "Easy"
            /\ (5 * n <= t /\ t < 7 * n) => call.ret.rating = "Moderate"
            /\ 7 * n <= t => call.ret.rating = "Hard"

\* a mean of exactly 2.5 over two fixtures, rated "Moderate"
C9_Witness ==
    /\ IsFixtureCall /\ Len(call.ret.fixtures) = 2
    /\ TwiceTotal(call.ret.fixtures) = 5 * Len(call.ret.fixtures)
    /\ call.ret.rating = "Moderate"

\* C10: analyze_value on a player whose now_cost is 0 raises nothing and
\* returns points_per_million 0.0 and value_rating "Poor".
C10_ZeroCostIsPoor ==
    (call.op = "analyze_value" /\ call.player.now_cost = 0) =>
        /\ call.ret.exc = ""
        /\ call.ret.points_per_million = 0
        /\ call.ret.value_rating = "Poor"

C10_Witness ==
    /\ call.op = "analyze_value"
    /\ call.player.now_cost = 0 /\ call.player.total_points = 250
    /\ call.ret.value_rating = "Poor"

IsUnderperformerCall == call.op = "find_underperformers"

PoorForm(player, threshold) == Get(player.form) < threshold
BadStatus(player) == player.status \in {"i", "s", "u"}
InjuryDoubt(player) ==
    /\ ~IsNone(player.chance_of_playing_next_round)
    /\ Get(player.chance_of_playing_next_round) < 75

Satisfied(player, threshold) ==
    (IF PoorForm(player, threshold) THEN 1 ELSE 0)
    + (IF BadStatus(player) THEN 1 ELSE 0)
    + (IF InjuryDoubt(player) THEN 1 ELSE 0)

\* the entries of the output that are about the player
EntriesOf(player) == {j \in 1..Len(call.ret) : call.ret[j].player = player}

\* a player is in the output, once, iff a condition holds for the player,
\* with one reason per satisfied condition
OneReasonPerCondition ==
    \A i \in 1..Len(call.team_players) :
        LET player == call.team_players[i]
            n == Satisfied(player, call.threshold_form)
        IN  /\ Cardinality(EntriesOf(player)) = IF n > 0 THEN 1 ELSE 0
            /\ \A j \in EntriesOf(player) : Len(call.ret[j].reasons) = n

\* form 2.9 under the threshold 3.0, available, no chance value
PoorFormExample ==
    \A i \in 1..Len(call.team_players) :
        LET player == call.team_players[i]
        IN  (/\ call.threshold_form = 30 /\ player.form = Some(29)
             /\ player.status = "a" /\ IsNone(player.chance_of_playing_next_round)) =>
                \E j \in EntriesOf(player) :
                    call.ret[j].reasons = <<Reason("Poor form", Some(29))>>

\* C11 (as stated): find_underperformers outputs a player iff one of the
\* three conditions holds, with one reason per satisfied condition; a player
\* with form 2.9, available and without chance value has the one reason
\* "Poor form (2.9)", and a player with status injured and form 5.0 has the
\* one reason "Injured".
C11_UnderperformerReasons ==
    IsUnderperformerCall =>
        /\ OneReasonPerCondition
        /\ PoorFormExample
        /\ \A i \in 1..Len(call.team_players) :
              LET player == call.team_players[i]
              IN  (player.status = "i" /\ player.form = Some(50)) =>
                     \E j \in EntriesOf(player) :
                         call.ret[j].reasons = <<Reason("Injured", None)>>

\* C11 (amended): as above, where the injured player with form 5.0 has the
\* one reason "Injured" when the chance value is absent or at least 75.
C11_UnderperformerReasonsNoDoubt ==
    IsUnderperformerCall =>
        /\ OneReasonPerCondition
        /\ PoorFormExample
        /\ \A i \in 1..Len(call.team_players) :
              LET player == call.team_players[i]
              IN  (/\ player.status = "i" /\ player.form = Some(50)
                   /\ ~InjuryDoubt(player)) =>
                     \E j \in EntriesOf(player) :
                         call.ret[j].reasons = <<Reason("Injured", None)>>

\* a squad of a suspended player in good form with a chance value of 75 and
\* an injured player in form 5.0 with a chance value of 74
C11_Witness ==
    /\ IsUnderperformerCall /\ Len(call.team_players) = 2
    /\ call.team_players[1].status = "s" /\ call.team_players[1].form = Some(50)
    /\ call.team_players[1].chance_of_playing_next_round = Some(75)
    /\ call.team_players[2].status = "i" /\ call.team_players[2].form = Some(50)
    /\ call.team_players[2].chance_of_playing_next_round = Some(74)
    /\ Len(call.ret) = 2
    /\ call.ret[1].reasons = <<Reason("Suspended", None)>>
    /\ call.ret[2].reasons = <<Reason("Injured", None), Reason("Injury doubt", None)>>

\* the Analyze stage has returned its weaknesses list
Analyzed == state.step_completed = "analysis" /\ ~IsNone(state.team_weaknesses)

\* the squad is full and every pick is a known player
FullKnownSquad ==
    /\ ~IsNone(state.current_team_picks) /\ ~IsNone(state.current_team_players)
    /\ Len(Get(state.current_team_picks)) = 15
    /\ Len(Get(state.current_team_players)) = 15

SquadWhere(Test(_)) ==
    {i \in 1..Len(Get(state.current_team_players)) : Test(Get(state.current_team_players)[i])}

FormBelow3(player) == Get(player.form) < 30
Unfit(player) == BadStatus(player) \/ InjuryDoubt(player)
FitInForm(player) == ~FormBelow3(player) /\ ~Unfit(player)

Listed(count, text) ==
    \E i \in 1..Len(Get(state.team_weaknesses)) :
        Get(state.team_weaknesses)[i] = [count |-> count, text |-> text]

\* C12 (as stated): in a run whose squad has 15 known players of which 6
\* have form < 3.0, the weaknesses returned by the Analyze stage include
\* "6 players with poor form or injuries".
C12_SixPoorFormListed ==
    (Analyzed /\ FullKnownSquad /\ Cardinality(SquadWhere(FormBelow3)) = 6) =>
        Listed(6, "players with poor form or injuries")

\* C12 (amended): the same, when the other nine players are available and
\* have no chance value below 75.
C12_SixPoorFormOthersFit ==
    (/\ Analyzed /\ FullKnownSquad
     /\ Cardinality(SquadWhere(FormBelow3)) = 6
     /\ Cardinality(SquadWhere(FitInForm)) = 9) =>
        Listed(6, "players with poor form or injuries")

\* six players out of form, the other nine at form 3.0 and fit
C12_Witness ==
    /\ Analyzed /\ FullKnownSquad /\ pc = "suggest"
    /\ Cardinality(SquadWhere(FormBelow3)) = 6
    /\ Cardinality(SquadWhere(FitInForm)) = 9
    /\ Cardinality(SquadWhere(BadStatus)) = 0
    /\ Get(state.team_weaknesses)[1].count = 6
    /\ Listed(6, "players with poor form or injuries")

Analyses == Get(state.form_analysis).player_analyses

RatedHard == {i \in 1..Len(Analyses) : Analyses[i].fixtures.rating = "Hard"}

RatedPoorOrAverage ==
    {i \in 1..Len(Analyses) : Analyses[i].value.value_rating \in {"Poor", "Average"}}

Entry(present, count, text) ==
    IF present THEN <<[count |-> count, text |-> text]>> ELSE <<>>

\* the three entries, each when its condition holds, in the order stated
WeaknessEntries(value_text) ==
    Entry(Len(Get(state.form_analysis).underperformers) > 0,
          Len(Get(state.form_analysis).underperformers),
          "players with poor form or injuries")
    \o Entry(Cardinality(RatedHard) >= 3, Cardinality(RatedHard),
             "players facing difficult fixtures")
    \o Entry(Cardinality(RatedPoorOrAverage) >= 4, Cardinality(RatedPoorOrAverage),
             value_text)

\* C20 (as stated): the weaknesses list holds "N players with poor form or
\* injuries" iff there are N > 0 underperformers, "N players facing difficult
\* fixtures" iff N >= 3 players are rated "Hard", "N players with poor value"
\* iff N >= 4 players are rated "Poor" or "Average", nothing else, in that order.
C20_WeaknessEntries ==
    Analyzed => Get(state.team_weaknesses) = WeaknessEntries("players with poor value")

\* C20 (amended): the same, the third entry reading "N players with poor
\* value for money".
C20_WeaknessEntriesForMoney ==
    Analyzed =>
        Get(state.team_weaknesses) = WeaknessEntries("players with poor value for money")

\* three players rated "Hard" and four rated "Poor" or "Average": both
\* entries are listed at their least counts, after the first
C20_Witness ==
    /\ Analyzed /\ pc = "suggest"
    /\ Cardinality(RatedHard) = 3 /\ Cardinality(RatedPoorOrAverage) = 4
    /\ \E i \in RatedPoorOrAverage : Analyses[i].value.value_rating = "Average"
    /\ Len(Get(state.team_weaknesses)) = 3
    /\ Get(state.team_weaknesses)[3] = [count |-> 4, text |-> "players with poor value for money"]

\* two players rated "Hard" and three rated "Poor" or "Average": neither
\* entry is listed
C20_WitnessBelow ==
    /\ Analyzed /\ Cardinality(RatedHard) = 2 /\ Cardinality(RatedPoorOrAverage) = 3
    /\ Len(Get(state.team_weaknesses)) <= 1

IsSuggestCall == call # NoCall /\ call.op = "POST /api/transfers/suggest"

\* C13: a suggestion request without X-FPL-Cookie header, or with an empty
\* one, is answered 401 and starts no pipeline: no node is invoked, no
\* gateway request and no LLM call is made.
C13_NoCookieNoPipeline ==
    (IsSuggestCall /\ call.cookie \in {None, Some("")}) =>
        /\ call.status = "401" /\ pc = "responded"
        /\ invoked = <<>> /\ result = None
        /\ net.log = <<>> /\ call.traffic.log = <<>>
        /\ llm_calls = 0

\* the request with an empty header has been answered
C13_Witness ==
    /\ IsSuggestCall /\ call.cookie = Some("")
    /\ call.status = "401" /\ pc = "responded"

\* C14: on every endpoint that takes the session credential, a request
\* whose credential the upstream provider rejects is answered 401, never 500.
C14_RejectedCredentialIsUnauthorized ==
    (call # NoCall /\ pc = "responded" /\ call.cookie = Some("rejected")) =>
        call.status = "401"

IsChatReply == call # NoCall /\ call.op = "POST /api/chat/message" /\ call.status = "200"

\* the sentinel occurs in the text
ContainsSentinel(text) ==
    \E i \in 1..Len(text) :
        \/ text[i] = "S"
        \/ i < Len(text) /\ text[i] = "Sa" /\ text[i + 1] = "Sb"

FlagIffStartsWithSentinel ==
    IsChatReply => (call.body.is_suggestion_request <=> StartsWithSentinel(Strip(call.content)))

UnflaggedReplyIsTrimmed ==
    (IsChatReply /\ ~call.body.is_suggestion_request) => call.body.reply = Strip(call.content)

\* C15: is_suggestion_request is true iff the trimmed LLM reply starts with
\* the sentinel; when true the returned reply does not contain the sentinel,
\* when false the returned reply is the trimmed LLM reply unchanged.
C15_SentinelFlaggedAndStripped ==
    /\ FlagIffStartsWithSentinel
    /\ UnflaggedReplyIsTrimmed
    /\ (IsChatReply /\ call.body.is_suggestion_request) => ~ContainsSentinel(call.body.reply)

Stages == <<"fetch_data", "analyze", "suggest">>

\* C16: the stages are invoked in the order Fetch, Analyze, Suggest, each at
\* most once and each only after the one before it has returned; no two
\* stages and no two requests of the Fetch stage are in progress together.
C16_StrictlySequential ==
    call.op = "graph" =>
        /\ Len(invoked) <= 3 /\ invoked = SubSeq(Stages, 1, Len(invoked))
        /\ Cardinality(call.running) <= 1
        /\ call.running \subseteq {invoked[i] : i \in {Len(invoked)} \ {0}}
        /\ Cardinality(call.inflight) <= 1
        /\ call.inflight # {} => call.running = {"fetch_data"}

\* a fixture request of a later gameweek is in flight, in the Fetch stage
C16_Witness ==
    /\ call.op = "graph" /\ call.running = {"fetch_data"}
    /\ \E r \in call.inflight : r.request.url = "fixtures/" /\ r.n > 8
    /\ invoked = <<"fetch_data">>

\* the Suggest stage is running, after the other two
C16_WitnessSuggest ==
    /\ call.op = "graph" /\ call.running = {"suggest"}
    /\ invoked = Stages

\* the Fetch stage succeeded and the Analyze stage, invoked after it, raised
AnalyzeRaisedAfterFetch ==
    /\ "analyze" \in Elems(invoked)
    /\ ~net.raised /\ ~IsNone(state.all_players)
    /\ IsNone(state.form_analysis)

\* C17: when the Fetch stage succeeded and the Analyze stage raises, the
\* Suggest stage is not invoked, step_completed stays "analysis_failed" and
\* the error the caller receives begins with "Analysis failed:".
C17_AnalysisFailureStopsPipeline ==
    AnalyzeRaisedAfterFetch =>
        /\ "suggest" \notin Elems(invoked)
        /\ state.step_completed = "analysis_failed"
        /\ Returned => /\ ~Get(result).success
                       /\ Get(result).error.prefix = "Analysis failed"

\* the LLM answered text from which no JSON document is extracted
Unparseable(text) == json_loads(ExtractJson(text)).exc # ""

\* C18: when the LLM's reply, after extraction of a fenced block, is not
\* parseable as JSON, the Suggest stage ends "suggestion_failed" with an error
\* beginning "Failed to parse suggestions:", transfer_suggestions stays empty,
\* and run_suggestion_workflow returns success=false with that error.
C18_UnparseableReplyFailsParse ==
    /\ pc = "suggest" =>
         \A text \in ReplyTexts :
            LET run == suggester_run(state, "reply", text)
                final == Merge(state, run.update)
            IN  (run.llm_called /\ Unparseable(text)) =>
                    /\ final.step_completed = "suggestion_failed"
                    /\ ~IsNone(final.error)
                    /\ Get(final.error).prefix = "Failed to parse suggestions"
                    /\ final.transfer_suggestions = <<>>
                    /\ WorkflowResult(final) = [success |-> FALSE, error |-> Get(final.error)]
    /\ (~IsNone(state.error) /\ Get(state.error).prefix = "Failed to parse suggestions") =>
            /\ state.step_completed = "suggestion_failed"
            /\ state.transfer_suggestions = <<>>
            /\ llm_calls = 1 /\ IsNone(parsed)
            /\ Returned => Get(result) = [success |-> FALSE, error |-> Get(state.error)]

\* the run has returned the parse failure to the caller
C18_Witness ==
    /\ Returned /\ GraphCompleted /\ llm_calls = 1
    /\ ~Get(result).success
    /\ Get(result).error = [prefix |-> "Failed to parse suggestions",
                             detail |-> "JSONDecodeError"]
    /\ state.step_completed = "suggestion_failed"
    /\ state.transfer_suggestions = <<>>

\* the gameweeks of the fixture requests issued, in the order issued
RECURSIVE FixtureRequests(_)
FixtureRequests(log) ==
    IF log = <<>> THEN <<>>
    ELSE (IF Head(log).url = "fixtures/" THEN <<Head(log).arg>> ELSE <<>>)
         \o FixtureRequests(Tail(log))

IsTopPerformersCall == call.op = "find_top_performers_by_position"

\* the players of the pool that have the position, cost at most max_cost and
\* status available
EligibleIn(all_players, position, max_cost) ==
    {all_players[i] : i \in {j \in 1..Len(all_players) :
        /\ all_players[j].position = position
        /\ all_players[j].now_cost <= max_cost
        /\ all_players[j].status = "a"}}

FormTimesPpg(player) ==
    (IF IsNone(player.form) THEN 0 ELSE Get(player.form))
    * (IF IsNone(player.points_per_game) THEN 0 ELSE Get(player.points_per_game))

\* C21: find_top_performers_by_position returns only eligible players
\* (position, cost <= max_cost, available), ordered by form x points_per_game
\* non-increasing, min(K, number of eligible players) of them, and no
\* eligible player left out scores strictly higher than a returned one.
C21_TopPerformers ==
    IsTopPerformersCall =>
        LET eligible == EligibleIn(call.all_players, call.position, call.max_cost)
            returned == {call.ret[j] : j \in 1..Len(call.ret)}
        IN  /\ returned \subseteq eligible
            /\ \A j, k \in 1..Len(call.ret) :
                  j < k => /\ FormTimesPpg(call.ret[j]) >= FormTimesPpg(call.ret[k])
                           /\ call.ret[j] # call.ret[k]
            /\ Len(call.ret) = IF call.limit <= Cardinality(eligible)
                               THEN call.limit ELSE Cardinality(eligible)
            /\ \A p \in eligible \ returned, q \in returned :
                  FormTimesPpg(p) <= FormTimesPpg(q)

\* three midfielders are eligible, listed in the pool in ascending score,
\* and the two best are returned, best first
C21_Witness ==
    /\ IsTopPerformersCall /\ call.position = "MID" /\ call.limit = 2
    /\ Cardinality(EligibleIn(call.all_players, call.position, call.max_cost)) = 3
    /\ Len(call.ret) = 2
    /\ FormTimesPpg(call.ret[1]) > FormTimesPpg(call.ret[2])
    /\ \E i, j \in 1..Len(call.all_players) :
          i < j /\ call.all_players[i] = call.ret[2] /\ call.all_players[j] = call.ret[1]

IsFormScoreCall == call.op = "get_player_form_score"

SamePosition == {i \in 1..Len(call.all_players) :
                    call.all_players[i].position = call.player.position}

ZeroIfNull(x) == IF IsNone(x) THEN 0 ELSE Get(x)

RECURSIVE SumOver(_, _)
SumOver(indices, field) ==
    IF indices = {} THEN 0
    ELSE LET i == CHOOSE j \in indices : TRUE
         IN  ZeroIfNull(call.all_players[i][field]) + SumOver(indices \ {i}, field)

\* versus (hundredths) is the player's value x (tenths) minus the mean of the
\* field over the peers, to two places; the mean of no peers is 0
IsDifferenceFromMean(versus, x, peers, field) ==
    LET n == Cardinality(peers)
    IN  IF n = 0 THEN versus = 10 * x
        ELSE LET twice == 2 * (n * versus - 10 * (x * n - SumOver(peers, field)))
             IN  -n <= twice /\ twice <= n

\* C22 (as stated): the positional average is the mean over all same-position
\* players of the pool, a peer with a null form (or points_per_game) counting
\* as 0, and form_vs_position_avg is the player's form minus that mean.
C22_NullPeerCountsAsZero ==
    IsFormScoreCall =>
        /\ IsDifferenceFromMean(call.ret.form_vs_position_avg,
                                ZeroIfNull(call.player.form), SamePosition, "form")
        /\ IsDifferenceFromMean(call.ret.ppg_vs_position_avg,
                                ZeroIfNull(call.player.points_per_game), SamePosition,
                                "points_per_game")

WithValue(field) == {i \in SamePosition : ~IsNone(call.all_players[i][field])}

\* C22 (amended): the positional average is the mean over the same-position
\* players of the pool whose form (or points_per_game) is not null, and 0
\* when there is none; form_vs_position_avg is the player's form minus it.
C22_NullPeerLeftOut ==
    IsFormScoreCall =>
        /\ IsDifferenceFromMean(call.ret.form_vs_position_avg,
                                ZeroIfNull(call.player.form), WithValue("form"), "form")
        /\ IsDifferenceFromMean(call.ret.ppg_vs_position_avg,
                                ZeroIfNull(call.player.points_per_game),
                                WithValue("points_per_game"), "points_per_game")

\* a midfielder of form 6.5 among a peer of form 3.0 and a peer of null form:
\* the mean is 4.75, the difference 1.75
C22_Witness ==
    /\ IsFormScoreCall /\ Len(call.all_players) = 3
    /\ call.player.form = Some(65) /\ call.all_players[1] = call.player
    /\ call.all_players[2].form = Some(30) /\ call.all_players[3].form = None
    /\ Cardinality(SamePosition) = 3
    /\ call.ret.form_vs_position_avg = 175

\* the Suggest stage succeeded on a reply with suggestions
SuggestSucceeded == state.step_completed = "suggestion" /\ ~IsNone(parsed)

\* the entry of the pool with the id, None when there is none
PoolEntry(id) ==
    LET pool == Get(state.all_players)
        hits == {i \in 1..Len(pool) : ~IsNone(id) /\ pool[i].id = Get(id)}
    IN  IF hits = {} THEN None ELSE Some(pool[CHOOSE i \in hits : TRUE])

\* C23: every suggestion returned by a successful Suggest stage carries the
\* pool's records of player_out_id and player_in_id as player_out and
\* player_in, and a bank_after equal to the budget minus its cost_change.
C23_ReturnedSuggestionsEnriched ==
    SuggestSucceeded =>
        \A i \in 1..Len(state.transfer_suggestions) :
            LET suggestion == state.transfer_suggestions[i]
            IN  /\ ~IsNone(suggestion.player_out)
                /\ suggestion.player_out = PoolEntry(suggestion.player_out_id)
                /\ ~IsNone(suggestion.player_in)
                /\ suggestion.player_in = PoolEntry(suggestion.player_in_id)
                /\ ~IsNone(suggestion.bank_after) /\ ~IsNone(suggestion.cost_change)
                /\ Get(suggestion.bank_after) =
                       Get(state.team_summary).bank - Get(suggestion.cost_change)

\* C26: run_suggestion_workflow never raises: a run that has not returned is
\* at a node or at the end of the graph, from where a step is taken whatever
\* the state holds, and what it returns has a boolean success and, when
\* success is false, a non-empty error.
C26_AlwaysReturnsResult ==
    /\ ~Returned =>
          /\ IsNone(result)
          /\ pc \in {"fetch_data", "analyze", "suggest", "END"}
    /\ Returned =>
          /\ ~IsNone(result)
          /\ "success" \in DOMAIN Get(result) /\ Get(result).success \in BOOLEAN
          /\ ~Get(result).success =>
                /\ "error" \in DOMAIN Get(result)
                /\ Get(result).error.prefix # ""

\* an exception escaped the graph and came back as a failure result
C26_Witness ==
    /\ Returned /\ invoked = <<>>
    /\ Get(result) = [success |-> FALSE,
                      error |-> [prefix |-> "Workflow failed", detail |-> "graph"]]

AnalyzeFailed == "analyze" \in Elems(invoked) /\ IsNone(state.form_analysis)

\* C27: in a run in which the Fetch stage or the Analyze stage failed, the
\* LLM call of the Suggest stage is never issued.
C27_NoLlmAfterFailedStage ==
    (FetchFailed \/ AnalyzeFailed) => llm_calls = 0

\* Fetch succeeded, Analyze failed, and Suggest has run without the LLM
C27_Witness ==
    /\ GraphCompleted /\ ~FetchFailed /\ AnalyzeFailed
    /\ state.step_completed = "suggestion_failed" /\ llm_calls = 0

\* C28: success=true is returned only when all three stages completed (final
\* step_completed "suggestion", Fetch and Analyze not failed), and no stage
\* resets a set error field to null.
C28_FailureNeverMasked ==
    /\ [](Returned /\ Get(result).success =>
            /\ GraphCompleted /\ state.step_completed = "suggestion"
            /\ ~FetchFailed /\ ~AnalyzeFailed /\ IsNone(state.error))
    /\ [][~IsNone(state.error) => ~IsNone(state'.error)]_vars

\* the Analyze stage failed first, the Suggest stage ran after it, and the
\* caller was told of a failure
C28_Witness ==
    /\ Returned /\ GraphCompleted /\ AnalyzeFailed /\ ~FetchFailed
    /\ ~IsNone(state.error) /\ ~Get(result).success

InPool(id) == ~IsNone(id) /\ ~IsNone(PoolEntry(id))

\* the suggestion lacks player_out_id or player_in_id or, with both players
\* found in the pool, cost_change
Malformed(suggestion) ==
    \/ IsNone(suggestion.player_out_id)
    \/ IsNone(suggestion.player_in_id)
    \/ /\ InPool(suggestion.player_out_id) /\ InPool(suggestion.player_in_id)
       /\ IsNone(suggestion.cost_change)

SuggestReachedFilter == "suggest" \in Elems(invoked) /\ ~IsNone(parsed)

\* C29 (as stated): a malformed suggestion in an otherwise valid reply passes
\* the squad filter and makes the whole Suggest stage fail: step_completed is
\* "suggestion_failed" and no suggestion of the reply is returned.
C29_MalformedFailsStage ==
    (SuggestReachedFilter /\ \E i \in 1..Len(Get(parsed)) : Malformed(Get(parsed)[i])) =>
        /\ state.step_completed = "suggestion_failed"
        /\ state.transfer_suggestions = <<>>

KeptByFilter(suggestion) ==
    \/ IsNone(suggestion.player_in_id)
    \/ \A i \in 1..Len(Get(state.current_team_players)) :
          Get(state.current_team_players)[i].id # Get(suggestion.player_in_id)

\* C29 (amended): a malformed suggestion whose player_in_id is not in the
\* squad makes the whole Suggest stage fail; one whose player_in_id is in the
\* squad is dropped by the filter like any other.
C29_KeptMalformedFailsStage ==
    (SuggestReachedFilter /\ \E i \in 1..Len(Get(parsed)) :
        Malformed(Get(parsed)[i]) /\ KeptByFilter(Get(parsed)[i])) =>
        /\ state.step_completed = "suggestion_failed"
        /\ ~IsNone(state.error) /\ Get(state.error).prefix = "Suggestion failed"
        /\ state.transfer_suggestions = <<>>

\* a reply of a well-formed suggestion followed by one without cost_change
\* has failed the stage
C29_Witness ==
    /\ SuggestReachedFilter /\ Len(Get(parsed)) = 2
    /\ ~Malformed(Get(parsed)[1]) /\ KeptByFilter(Get(parsed)[1])
    /\ Malformed(Get(parsed)[2]) /\ KeptByFilter(Get(parsed)[2])
    /\ IsNone(Get(parsed)[2].cost_change)
    /\ state.step_completed = "suggestion_failed"
    /\ state.transfer_suggestions = <<>>

\* the Fetch stage succeeded and no pick is a player of the pool
EmptySquadFetched ==
    /\ "fetch_data" \in Elems(invoked) /\ ~net.raised
    /\ ~IsNone(state.current_team_players) /\ Get(state.current_team_players) = <<>>

\* C30: when the Fetch stage succeeds with an empty derived squad, the
\* Analyze stage fails on the division by the squad size and the pipeline
\* returns success=false; the Analyze stage succeeds only for a non-empty squad.
C30_EmptySquadFailsAnalysis ==
    /\ (EmptySquadFetched /\ "analyze" \in Elems(invoked)) =>
          /\ IsNone(state.form_analysis) /\ IsNone(state.team_weaknesses)
          /\ pc = "suggest" =>
                /\ state.step_completed = "analysis_failed"
                /\ Get(state.error) = [prefix |-> "Analysis failed",
                                       detail |-> "division by zero"]
          /\ Returned => ~Get(result).success
    /\ ~IsNone(state.form_analysis) => Get(state.current_team_players) # <<>>

\* picks that name no player of a non-empty pool, and the failure returned
C30_Witness ==
    /\ Returned /\ EmptySquadFetched /\ ~Get(result).success
    /\ Get(state.all_players) # <<>> /\ Get(state.current_team_picks) # <<>>
    /\ IsNone(state.form_analysis)

\* the Suggest node has built its prompt in this run
PromptBuilt == "suggest" \in Elems(invoked) /\ ~IsNone(prompt)

Underperformers == Get(state.form_analysis).underperformers

\* the underperformer is the player_out of one of the prompt's lists
HasList(under) ==
    /\ under.player.web_name \in DOMAIN Get(prompt)
    /\ Get(prompt)[under.player.web_name].player_out = under.player

\* a is in worse form than b
Worse(a, b) == FloatOr0(a.player.form) < FloatOr0(b.player.form)

\* at most 5 lists, each for an underperformer of the squad and of at most 5
\* candidates, every candidate of the underperformer's position, available,
\* within the underperformer's cost plus the bank, and not in the squad
CandidateListsSound ==
    PromptBuilt =>
        /\ Cardinality(DOMAIN Get(prompt)) <= 5
        /\ \A name \in DOMAIN Get(prompt) :
              LET entry == Get(prompt)[name]
              IN  /\ \E i \in 1..Len(Underperformers) :
                        Underperformers[i].player = entry.player_out
                  /\ Len(entry.candidates) <= 5
                  /\ \A k \in 1..Len(entry.candidates) :
                        LET c == entry.candidates[k]
                        IN  /\ c.position = entry.player_out.position
                            /\ c.status = "a"
                            /\ c.now_cost <= entry.player_out.now_cost
                                               + Get(state.team_summary).bank
                            /\ c.id \notin SquadIds(Get(state.current_team_players))

\* no underperformer left without a list is in worse form than one with a list
ListsForTheWorst ==
    PromptBuilt =>
        \A i, j \in 1..Len(Underperformers) :
            (HasList(Underperformers[i]) /\ ~HasList(Underperformers[j]))
                => ~Worse(Underperformers[j], Underperformers[i])

\* C24: the prompt's replacement candidates are built for up to the 5 worst
\* underperformers of the squad, and each list holds at most 5 players, all
\* of the underperformer's position, available, affordable with the
\* underperformer's cost plus the bank, and not in the current squad.
C24_ReplacementCandidates == ListsForTheWorst /\ CandidateListsSound

\* C25: the tracking-server flag is checked once and memoized: over the
\* Suggest invocations of one process the connectivity probe is made at most
\* once, and a call made when the flag is set returns it without probing.
C25_ProbedAtMostOnce ==
    [][/\ mlflow'.probes <= 1
       /\ ~IsNone(mlflow.available) =>
             /\ mlflow'.probes = mlflow.probes
             /\ mlflow'.available = mlflow.available]_vars

====
